---------------------------- MODULE Spec2Model ----------------------------
(***************************************************************************)
(* A model of the ayyboy Game Boy emulator core: the SM83 step             *)
(* (src/lr35902/cpu.rs) with its interrupt protocol, the divider and timer *)
(* chain (src/lr35902/timer.rs), and the cartridge mappers                 *)
(* (src/memory/mapper/*.rs).  Bytes are naturals 0..255, words 0..65535.   *)
(***************************************************************************)
EXTENDS Integers, Sequences, FiniteSets, TLC

(***************************************************************************)
(* Bit arithmetic on bytes.                                                *)
(***************************************************************************)
Bit(x, n) == (x \div (2 ^ n)) % 2

BitAnd(x, y) ==
    LET b(n) == Bit(x, n) * Bit(y, n) * (2 ^ n)
    IN  b(0) + b(1) + b(2) + b(3) + b(4) + b(5) + b(6) + b(7)

BitOr(x, y) == x + y - BitAnd(x, y)

BitNot(x) == 255 - x

Lo(w) == w % 256

Hi(w) == (w \div 256) % 256

Word(lo, hi) == hi * 256 + lo

(***************************************************************************)
(* Memory-mapped register addresses (src/memory/mod.rs).                   *)
(***************************************************************************)
INTERRUPT_ENABLE_REGISTER == 65535

INTERRUPT_FLAGS_REGISTER == 65295

DIV_REGISTER == 65284

TIMA_REGISTER == 65285

TMA_REGISTER == 65286

TAC_REGISTER == 65287

(***************************************************************************)
(* Bounds of the model.  The stack lives in a window of high RAM; the      *)
(* window is wide enough for every push and pop MaxSteps steps can make.   *)
(***************************************************************************)
MaxSteps == 4

StackLo == 65504

StackHi == 65531

StackAddrs == StackLo .. StackHi

IoAddrs == {DIV_REGISTER, TIMA_REGISTER, TMA_REGISTER, TAC_REGISTER,
            INTERRUPT_FLAGS_REGISTER, INTERRUPT_ENABLE_REGISTER}

MemAddrs == StackAddrs \cup IoAddrs

VARIABLES
    registers,      \* Cpu.registers: a, f, sp, pc
    ime,            \* Cpu.ime: enabled, enable_pending
    halted,         \* Cpu.halted
    cycles,         \* Cpu.cycles (elapsed T-cycles)
    div_cycles,     \* Cpu.div_cycles (DIV sub-counter kept by the CPU)
    memory,         \* Mmu.memory, restricted to MemAddrs
    timer,          \* Timer: div_cycles, tima_cycles
    irq_revision,   \* which revision of the vector selection the build holds
    cartridge,      \* Mmu.cartridge: the mapper and its banking registers
    steps,          \* number of Cpu::tick calls so far
    reported,       \* sum of the T-cycles Cpu::tick has returned
    ppu,            \* Ppu: state, cycles, window_line_counter
    gameboy,        \* GameBoy: master_clock, master_clock_penalty, running
    joypad,         \* Mmu.joypad: the buttons held down
    cgb,            \* Mmu.mode, Mmu.last_ppu_state and the Mmu.cgb_hdma_* fields
    sm83,           \* Cpu.sm83: cached_lut, cached_lut_prefixed
    last            \* what the last operation did (history)

\* The devices around the CPU core.
deviceVars == <<ppu, gameboy, joypad, cgb, sm83>>

vars == <<registers, ime, halted, cycles, div_cycles, memory, timer,
          irq_revision, cartridge, steps, reported, ppu, gameboy, joypad, cgb, sm83,
          last>>

(***************************************************************************)
(* Flags (src/lr35902/registers.rs) and the InterruptFlags /               *)
(* InterruptEnable typed views (src/memory/registers.rs).                  *)
(***************************************************************************)
FLAG_ZERO == 128

FLAG_SUBTRACT == 64

FLAG_HALF_CARRY == 32

FLAG_CARRY == 16

FlagsAll == FLAG_ZERO + FLAG_SUBTRACT + FLAG_HALF_CARRY + FLAG_CARRY

IRQ_VBLANK == 1

IRQ_STAT == 2

IRQ_TIMER == 4

IRQ_SERIAL == 8

IRQ_JOYPAD == 16

IrqAll == IRQ_VBLANK + IRQ_STAT + IRQ_TIMER + IRQ_SERIAL + IRQ_JOYPAD

\* Flags::from_bits_truncate: unknown bits (the low nibble) are dropped.
FlagsFromBitsTruncateLeak(data) == data

FlagsFromBitsTruncate(data) == BitAnd(data, FlagsAll)

\* InterruptFlags::from / InterruptEnable::from: from_bits_truncate on 5 bits.
\* The first definition keeps the three high bits, for comparison.
IrqFromBitsKept(byte) == byte

IrqFromBitsTruncate(byte) == BitAnd(byte, IrqAll)

(***************************************************************************)
(* Mmu::read and Mmu::write for the addresses of MemAddrs: I/O registers   *)
(* 0xFF04-0xFF07, 0xFF0F, high RAM and 0xFFFF all fall through to the      *)
(* last arm of the match, the backing byte array.                          *)
(***************************************************************************)
MmuRead(mem, addr) == mem[addr]

MmuWrite(mem, addr, data) == [mem EXCEPT ![addr] = data]

MmuRead16(mem, addr) == Word(MmuRead(mem, addr), MmuRead(mem, (addr + 1) % 65536))

MmuWrite16(mem, addr, data) ==
    MmuWrite(MmuWrite(mem, addr, Lo(data)), (addr + 1) % 65536, Hi(data))


(***************************************************************************)
(* The decoded instructions the model executes (src/lr35902/sm83.rs): the  *)
(* byte at PC is an input of each step, drawn from these opcodes.          *)
(***************************************************************************)
\* The jumps, calls and returns, by opcode and by condition; the plain name
\* is the unconditional form, which the decoder gives Condition::None.
JpOps == {"JP", "JP_Z", "JP_NZ", "JP_C", "JP_NC"}

JrOps == {"JR", "JR_Z", "JR_NZ", "JR_C", "JR_NC"}

CallOps == {"CALL", "CALL_Z", "CALL_NZ", "CALL_C", "CALL_NC"}

RetOps == {"RET", "RET_Z", "RET_NZ", "RET_C", "RET_NC"}

OpCondition(op) ==
    CASE op \in {"JP_Z", "JR_Z", "CALL_Z", "RET_Z"} -> "Z"
      [] op \in {"JP_NZ", "JR_NZ", "CALL_NZ", "RET_NZ"} -> "NZ"
      [] op \in {"JP_C", "JR_C", "CALL_C", "RET_C"} -> "C"
      [] op \in {"JP_NC", "JR_NC", "CALL_NC", "RET_NC"} -> "NC"
      [] OTHER -> "None"

InstructionLength(op) ==
    CASE op = "NOP" -> 1
      [] op \in JpOps -> 3
      [] op \in JrOps -> 2
      [] op \in CallOps -> 3
      [] op \in RetOps -> 1
      [] op = "EI" -> 1
      [] op = "DI" -> 1
      [] op = "RETI" -> 1
      [] op = "HALT" -> 1
      [] op = "STOP" -> 2
      [] op = "LDH_A8_A" -> 2
      [] op = "LD_A_D8" -> 2
      [] op = "POP_AF" -> 1
      [] op = "PUSH_AF" -> 1
      [] op = "SCF" -> 1
      [] op = "CCF" -> 1

\* Instruction.cycles.0
InstructionCycles(op) ==
    CASE op = "NOP" -> 4
      [] op \in JpOps -> 16
      [] op \in JrOps -> 12
      [] op \in CallOps -> 24
      [] op = "RET" -> 16
      [] op \in RetOps \ {"RET"} -> 20
      [] op = "EI" -> 4
      [] op = "DI" -> 4
      [] op = "RETI" -> 16
      [] op = "HALT" -> 4
      [] op = "STOP" -> 4
      [] op = "LDH_A8_A" -> 12
      [] op = "LD_A_D8" -> 8
      [] op = "POP_AF" -> 12
      [] op = "PUSH_AF" -> 16
      [] op = "SCF" -> 4
      [] op = "CCF" -> 4

\* Instruction.cycles.1 of the conditional forms
InstructionCyclesNotTaken(op) ==
    CASE op \in JpOps -> 12
      [] op \in JrOps -> 8
      [] op \in CallOps -> 12
      [] op \in RetOps -> 8

(***************************************************************************)
(* Cpu (src/lr35902/cpu.rs).  A machine value m bundles the CPU fields and *)
(* the memory the step works on.                                           *)
(***************************************************************************)
Machine ==
    [registers |-> registers, ime |-> ime, halted |-> halted, cycles |-> cycles,
     div_cycles |-> div_cycles, memory |-> memory]

\* Cpu::write_register(Register::F, data)
write_register_F(m, data) ==
    [m EXCEPT !.registers.f = FlagsFromBitsTruncate(data)]

\* Cpu::write_register16(Register::AF, value)
write_register16_AF(m, value) ==
    [m EXCEPT !.registers.a = Hi(value),
              !.registers.f = FlagsFromBitsTruncate(Lo(value))]

\* Cpu::read_register16(Register::AF)
read_register16_AF(m) == m.registers.a * 256 + m.registers.f

\* Cpu::set_flag, Cpu::clear_flag, Cpu::update_flag
set_flag(m, flag) == [m EXCEPT !.registers.f = BitOr(m.registers.f, flag)]

clear_flag(m, flag) ==
    [m EXCEPT !.registers.f =
        BitAnd(m.registers.f, BitAnd(BitNot(flag), FlagsAll))]

update_flag(m, flag, value) == IF value THEN set_flag(m, flag) ELSE clear_flag(m, flag)

read_flag(m, flag) == BitAnd(m.registers.f, flag) = flag

\* Cpu::push_stack: sp -= 2, then write16(sp, value).  The first definition
\* stores the high byte first, kept for comparison.
push_stack_high_first(m, value) ==
    [m EXCEPT !.registers.sp = m.registers.sp - 2,
              !.memory = MmuWrite16(m.memory, m.registers.sp - 2,
                                    Word(Hi(value), Lo(value)))]

push_stack(m, value) ==
    [m EXCEPT !.registers.sp = m.registers.sp - 2,
              !.memory = MmuWrite16(m.memory, m.registers.sp - 2, value)]

\* Cpu::pop_stack: read16(sp), then sp += 2.  The first definition is the
\* big-endian reading, kept for comparison.
pop_stack_value_swapped(m) ==
    Word(MmuRead(m.memory, m.registers.sp + 1), MmuRead(m.memory, m.registers.sp))

pop_stack_value(m) == MmuRead16(m.memory, m.registers.sp)

pop_stack(m) == [m EXCEPT !.registers.sp = m.registers.sp + 2]

\* Cpu::enable_interrupts(delayed).  The first definition ignores the delay,
\* kept for comparison.
enable_interrupts_nodelay(m, delayed) == [m EXCEPT !.ime.enabled = TRUE]

enable_interrupts(m, delayed) ==
    IF delayed THEN [m EXCEPT !.ime.enable_pending = TRUE]
               ELSE [m EXCEPT !.ime.enabled = TRUE]

\* Cpu::disable_interrupts.  The first definition leaves IME as it is, kept
\* for comparison.
disable_interrupts_none(m) == m

disable_interrupts(m) == [m EXCEPT !.ime.enabled = FALSE]

(***************************************************************************)
(* Vector selection.  irq.rs holds Vector::from_flags(interrupt_enable,    *)
(* interrupt_flags); the call in Cpu::handle_interrupts (cpu.rs:276)       *)
(* passes interrupt_flags alone, as InterruptFlags::to_vector              *)
(* (memory/registers.rs) does.  Both selections are modelled; a vector is  *)
(* named by its flag bit, 0 stands for the unreachable branch.             *)
(***************************************************************************)
Vector_from_flags(interrupt_enable, interrupt_flags) ==
    LET both(b) == BitAnd(interrupt_enable, b) = b /\ BitAnd(interrupt_flags, b) = b
    IN  CASE both(IRQ_VBLANK) -> IRQ_VBLANK
          [] both(IRQ_STAT) -> IRQ_STAT
          [] both(IRQ_TIMER) -> IRQ_TIMER
          [] both(IRQ_SERIAL) -> IRQ_SERIAL
          [] both(IRQ_JOYPAD) -> IRQ_JOYPAD
          [] OTHER -> 0

InterruptFlags_to_vector(interrupt_flags) ==
    LET has(b) == BitAnd(interrupt_flags, b) = b
    IN  CASE has(IRQ_VBLANK) -> IRQ_VBLANK
          [] has(IRQ_STAT) -> IRQ_STAT
          [] has(IRQ_TIMER) -> IRQ_TIMER
          [] has(IRQ_SERIAL) -> IRQ_SERIAL
          [] has(IRQ_JOYPAD) -> IRQ_JOYPAD
          [] OTHER -> 0

\* Vector::to_address
Vector_to_address(vector) ==
    CASE vector = IRQ_VBLANK -> 64
      [] vector = IRQ_STAT -> 72
      [] vector = IRQ_TIMER -> 80
      [] vector = IRQ_SERIAL -> 88
      [] vector = IRQ_JOYPAD -> 96
      [] OTHER -> 0

IrqRevisions == {"flags_only", "enable_and_flags"}

SelectVector(rev, interrupt_enable, interrupt_flags) ==
    IF rev = "flags_only"
    THEN InterruptFlags_to_vector(interrupt_flags)
    ELSE Vector_from_flags(interrupt_enable, interrupt_flags)

(***************************************************************************)
(* Cpu::handle_interrupts: commit a pending enable, read IE and IF through *)
(* their typed views, service the selected vector when IME is on, and wake *)
(* the CPU and add 20 cycles whenever IE & IF is non-zero.                 *)
(***************************************************************************)
CommitPending(i) ==
    IF i.enable_pending THEN [enabled |-> TRUE, enable_pending |-> FALSE] ELSE i

ReadInterruptEnable(m) ==
    IrqFromBitsTruncate(MmuRead(m.memory, INTERRUPT_ENABLE_REGISTER))

ReadInterruptFlags(m) ==
    IrqFromBitsTruncate(MmuRead(m.memory, INTERRUPT_FLAGS_REGISTER))

InterruptPending(m) == BitAnd(ReadInterruptEnable(m), ReadInterruptFlags(m)) # 0

\* push PC, jump to the vector, clear the vector's flag, clear IME
ServiceVector(m, vector, interrupt_flags) ==
    [m EXCEPT !.registers.sp = m.registers.sp - 2,
              !.registers.pc = Vector_to_address(vector),
              !.memory = MmuWrite(MmuWrite16(m.memory, m.registers.sp - 2, m.registers.pc),
                                  INTERRUPT_FLAGS_REGISTER,
                                  BitAnd(interrupt_flags, BitNot(vector))),
              !.ime.enabled = FALSE]

\* The first definition leaves the CPU halted, kept for comparison.
Wake_asleep(m) == [m EXCEPT !.cycles = m.cycles + 20]

Wake(m) == [m EXCEPT !.halted = FALSE, !.cycles = m.cycles + 20]

HandleCommitted(m, rev) ==
    IF InterruptPending(m)
    THEN Wake(IF m.ime.enabled
              THEN ServiceVector(m, SelectVector(rev, ReadInterruptEnable(m),
                                                 ReadInterruptFlags(m)),
                                 ReadInterruptFlags(m))
              ELSE m)
    ELSE m

handle_interrupts(m, rev) ==
    HandleCommitted([m EXCEPT !.ime = CommitPending(m.ime)], rev)

(***************************************************************************)
(* The opcode handlers (src/lr35902/handlers.rs) and the STOP arm of       *)
(* Cpu::tick.  m has PC already advanced past the instruction.             *)
(***************************************************************************)
\* Timer::reset_divider
reset_divider(mem) == MmuWrite(mem, DIV_REGISTER, 0)

\* Handlers::ret, arm Opcode::Reti
Handlers_reti(m) ==
    enable_interrupts([m EXCEPT !.registers.sp = pop_stack(m).registers.sp,
                                !.registers.pc = pop_stack_value(m)], FALSE)

\* Handlers::handle_interrupt (EI / DI)
Handlers_handle_interrupt(m, op) ==
    IF op = "EI" THEN enable_interrupts(m, TRUE) ELSE disable_interrupts(m)

\* Handlers::pop with Register::AF
Handlers_pop_AF(m) == write_register16_AF(pop_stack(m), pop_stack_value(m))

\* Handlers::push with Register::AF
Handlers_push_AF(m) == push_stack(m, read_register16_AF(m))

\* Handlers::complement, arms Scf and Ccf
Handlers_scf(m) ==
    update_flag(update_flag(update_flag(m, FLAG_SUBTRACT, FALSE),
                            FLAG_HALF_CARRY, FALSE), FLAG_CARRY, TRUE)

Handlers_ccf(m) ==
    update_flag(update_flag(update_flag(m, FLAG_SUBTRACT, FALSE),
                            FLAG_HALF_CARRY, FALSE),
                FLAG_CARRY, ~read_flag(m, FLAG_CARRY))

\* Handlers::load, arm LDH (imm8), A: the write goes to 0xFF00 + imm8
Handlers_ldh_store(m, imm) ==
    [m EXCEPT !.memory = MmuWrite(m.memory, 65280 + imm, m.registers.a)]

\* Handlers::load, arm LD r8, imm8 with r8 = A
Handlers_ld_a(m, imm) == [m EXCEPT !.registers.a = imm]

\* Handlers::check_condition
check_condition(m, condition) ==
    CASE condition = "Z" -> read_flag(m, FLAG_ZERO)
      [] condition = "NZ" -> ~read_flag(m, FLAG_ZERO)
      [] condition = "C" -> read_flag(m, FLAG_CARRY)
      [] condition = "NC" -> ~read_flag(m, FLAG_CARRY)
      [] condition = "None" -> TRUE

\* The offset byte of JR as the i8 it is decoded to
SignedByte(b) == IF b >= 128 THEN b - 256 ELSE b

\* Handlers::jump; PC is already past the instruction
Handlers_jump(m, op, imm) ==
    IF ~check_condition(m, OpCondition(op)) THEN m
    ELSE IF op \in JpOps THEN [m EXCEPT !.registers.pc = imm]
    ELSE IF op \in JrOps
    THEN [m EXCEPT !.registers.pc = (@ + SignedByte(imm) + 65536) % 65536]
    ELSE [push_stack(m, m.registers.pc) EXCEPT !.registers.pc = imm]

\* Handlers::ret, arm Opcode::Ret
Handlers_ret(m, op) ==
    IF check_condition(m, OpCondition(op))
    THEN [pop_stack(m) EXCEPT !.registers.pc = pop_stack_value(m)]
    ELSE m

\* The cycles the handler of op returns on machine m: Handlers::jump returns
\* cycles.0 when the condition holds and cycles.1 otherwise; Handlers::ret
\* returns cycles.0 on both paths of a conditional operand.
HandlerCycles(m, op) ==
    IF op \in JpOps \cup JrOps \cup CallOps /\ ~check_condition(m, OpCondition(op))
    THEN InstructionCyclesNotTaken(op)
    ELSE InstructionCycles(op)

Execute(m, op, imm) ==
    CASE op = "NOP" -> m
      [] op \in JpOps \cup JrOps \cup CallOps -> Handlers_jump(m, op, imm)
      [] op \in RetOps -> Handlers_ret(m, op)
      [] op = "EI" -> Handlers_handle_interrupt(m, op)
      [] op = "DI" -> Handlers_handle_interrupt(m, op)
      [] op = "RETI" -> Handlers_reti(m)
      [] op = "HALT" -> [m EXCEPT !.halted = TRUE]
      [] op = "STOP" -> [m EXCEPT !.memory = reset_divider(m.memory)]
      [] op = "LDH_A8_A" -> Handlers_ldh_store(m, imm)
      [] op = "LD_A_D8" -> Handlers_ld_a(m, imm)
      [] op = "POP_AF" -> Handlers_pop_AF(m)
      [] op = "PUSH_AF" -> Handlers_push_AF(m)
      [] op = "SCF" -> Handlers_scf(m)
      [] op = "CCF" -> Handlers_ccf(m)

\* Cpu::tick_div: one DIV increment once 256 cycles have accumulated
Cpu_tick_div(m) ==
    IF m.div_cycles >= 256
    THEN [m EXCEPT !.memory = MmuWrite(m.memory, DIV_REGISTER,
                                 (MmuRead(m.memory, DIV_REGISTER) + 1) % 256),
                   !.div_cycles = m.div_cycles - 256]
    ELSE m

(***************************************************************************)
(* Cpu::tick: interrupt check, early return while halted, decode at PC,    *)
(* advance PC, dispatch to the handler, account the cycles, tick DIV.      *)
(* AfterInterrupts is the part that follows handle_interrupts; TickCycles  *)
(* is the value the call returns.                                          *)
(***************************************************************************)
Account(m, c) ==
    Cpu_tick_div([m EXCEPT !.cycles = m.cycles + c, !.div_cycles = m.div_cycles + c])

AfterInterrupts(m, op, imm) ==
    IF m.halted
    THEN [m EXCEPT !.cycles = m.cycles + 4]
    ELSE Account(Execute([m EXCEPT !.registers.pc =
                             (m.registers.pc + InstructionLength(op)) % 65536],
                         op, imm),
                 HandlerCycles(m, op))

TickCycles(m, op) == IF m.halted THEN 4 ELSE HandlerCycles(m, op)

Cpu_tick(m, rev, op, imm) == AfterInterrupts(handle_interrupts(m, rev), op, imm)

(***************************************************************************)
(* Specification Spec: the CPU stepping through NOP, EI, DI, RETI and HALT *)
(* while peripherals raise interrupt requests.  The state after            *)
(* construction (Cpu::new) has IME off and is not halted; the harness      *)
(* (src/tests.rs) places PC, SP and the bytes of IE, IF and the stack      *)
(* before the first step.                                                  *)
(***************************************************************************)
InitPc == 336

InitSp == 65520

InitEnables == {4, 31}

InitFlags == {0, 5, 228}

NoTimer == [div_cycles |-> 0, tima_cycles |-> 0]

\* Rom::new: the flat 32 KiB cartridge, which has no registers.
NoCartridge ==
    [kind |-> "ROM", rom_banks |-> 2, rom_bank |-> 0, ram_bank |-> 0,
     ram_enabled |-> FALSE, banking_mode |-> FALSE,
     secondary_banking_allowed |-> FALSE, rtc_mapped |-> FALSE,
     ram_size |-> 0, ram |-> <<>>]

\* The devices after construction: Ppu::new, GameBoy::new, Joypad::new.
NoPpu == [state |-> "OamScan", cycles |-> 0, window_line_counter |-> 0]

NoGameBoy == [master_clock |-> 0, master_clock_penalty |-> 0, running |-> TRUE]

\* Joypad is the set of the buttons held down.
NoJoypad == {}

\* Sm83::new: both instruction caches are empty maps from opcode byte to
\* Instruction.
NewSm83 == [cached_lut |-> <<>>, cached_lut_prefixed |-> <<>>]

\* The CGB palette registers.  cram.rs and mmu.rs import the four names from
\* the memory module, which does not declare them under src/; the addresses
\* are those of the register map of the specification.
BACKGROUND_PALETTE_INDEX_REGISTER == 65384

BACKGROUND_PALETTE_DATA_REGISTER == 65385

OBJECT_PALETTE_INDEX_REGISTER == 65386

OBJECT_PALETTE_DATA_REGISTER == 65387

PaletteRegisters ==
    {BACKGROUND_PALETTE_INDEX_REGISTER, BACKGROUND_PALETTE_DATA_REGISTER,
     OBJECT_PALETTE_INDEX_REGISTER, OBJECT_PALETTE_DATA_REGISTER}

\* Cram::new
NewCram ==
    [background_palette |-> [i \in 0 .. 63 |-> 0],
     object_palette |-> [i \in 0 .. 63 |-> 0],
     auto_increment |-> FALSE, obj_address |-> 0, bg_address |-> 0]

\* The address after a data-port write with auto-increment: wrapping_add(1)
\* masked to six bits.  The first definition leaves the mask out, for
\* comparison.
Cram_advance_unmasked(address) == (address + 1) % 256

Cram_advance(address) == ((address + 1) % 256) % 64

\* Cram::read
Cram_read(c, addr) ==
    CASE addr = BACKGROUND_PALETTE_INDEX_REGISTER ->
           (IF c.auto_increment THEN 128 ELSE 0) + (c.bg_address % 64)
      [] addr = OBJECT_PALETTE_INDEX_REGISTER ->
           (IF c.auto_increment THEN 128 ELSE 0) + (c.obj_address % 64)
      [] addr = BACKGROUND_PALETTE_DATA_REGISTER -> c.background_palette[c.bg_address]
      [] addr = OBJECT_PALETTE_DATA_REGISTER -> c.object_palette[c.obj_address]
      [] OTHER -> 255

\* Cram::write
Cram_write(c, addr, data) ==
    CASE addr = BACKGROUND_PALETTE_INDEX_REGISTER ->
           [c EXCEPT !.auto_increment = (data >= 128), !.bg_address = data % 64]
      [] addr = OBJECT_PALETTE_INDEX_REGISTER ->
           [c EXCEPT !.auto_increment = (data >= 128), !.obj_address = data % 64]
      [] addr = BACKGROUND_PALETTE_DATA_REGISTER ->
           [c EXCEPT !.background_palette[c.bg_address] = data,
                     !.bg_address = IF c.auto_increment
                                    THEN Cram_advance(c.bg_address) ELSE c.bg_address]
      [] addr = OBJECT_PALETTE_DATA_REGISTER ->
           [c EXCEPT !.object_palette[c.obj_address] = data,
                     !.obj_address = IF c.auto_increment
                                     THEN Cram_advance(c.obj_address) ELSE c.obj_address]
      [] OTHER -> c

\* The mode, the palette memory and the HDMA fields of the Mmu after
\* Mmu::new; last_ppu_state is the state Mmu::cache_ppu_state stored last.
NewCgb(mode) ==
    [mode |-> mode, last_ppu_state |-> "OamScan", cram |-> NewCram,
     hdma_src |-> 0, hdma_dst |-> 0, hdma_transfer_length |-> 0,
     hdma_started |-> FALSE, hdma_is_hblank_mode |-> FALSE]

NoCgb == NewCgb("Dmg")

NoLast ==
    [op |-> "init", tick_op |-> "init", prev_op |-> "init", prev2_op |-> "init",
     prev_dispatched |-> FALSE, pre_enabled |-> FALSE, pre_pending |-> FALSE,
     check_enabled |-> FALSE, after_enabled |-> FALSE, pending |-> FALSE,
     dispatched |-> FALSE, pushed |-> 0, check_ie |-> 0, check_if |-> 0,
     pre_pc |-> 0, pre_sp |-> 0, pre_ie |-> 0, pre_if |-> 0, pre_halted |-> FALSE,
     fetch_pc |-> 0, exec_sp |-> 0, stack_lo |-> 0, stack_hi |-> 0, ret |-> 0,
     pre_div |-> 0, pre_div_cycles |-> 0, imm |-> 0, div_written |-> FALSE,
     fed |-> 0, incs |-> 0, stepped |-> FALSE, pre_tima |-> 0,
     addr |-> 0, read_before |-> 0, read_after |-> 0, pre_banking_mode |-> FALSE,
     result |-> "Ok", pre_f |-> 0, prev_pre_pc |-> 0, prev_pre_sp |-> 0,
     pre_memory |-> <<>>]

InitMemory(ie, if) ==
    [a \in MemAddrs |->
        CASE a = INTERRUPT_ENABLE_REGISTER -> ie
          [] a = INTERRUPT_FLAGS_REGISTER -> if
          [] a \in StackAddrs -> (3 * a + 1) % 256
          [] OTHER -> 0]

\* The CPU after construction and nops NOP steps (each 1 byte, 4 cycles), over
\* the memory mem the harness prepared and the cartridge cart.
CpuStartedWith(nops, mem, cart) ==
    /\ registers = [a |-> 0, f |-> 0, sp |-> InitSp, pc |-> InitPc + nops]
    /\ ime = [enabled |-> FALSE, enable_pending |-> FALSE]
    /\ halted = FALSE
    /\ cycles = 4 * nops
    /\ div_cycles = 4 * nops
    /\ memory = mem
    /\ timer = NoTimer
    /\ cartridge = cart
    /\ steps = 0
    /\ reported = 4 * nops
    /\ ppu = NoPpu
    /\ gameboy = NoGameBoy
    /\ joypad = NoJoypad
    /\ sm83 = NewSm83
    /\ cgb = NoCgb
    /\ last = NoLast

CpuStarted(nops, ie, if) == CpuStartedWith(nops, InitMemory(ie, if), NoCartridge)

Init ==
    /\ \E ie \in InitEnables, if \in InitFlags : CpuStarted(0, ie, if)
    /\ irq_revision \in IrqRevisions

\* The stack accesses of a step stay inside the modelled window; h is the
\* machine after the interrupt check.
StackFits(h, op) ==
    \/ h.halted
    \/ /\ op \in {"RETI", "POP_AF"} \cup RetOps => h.registers.sp + 1 <= StackHi
       /\ op \in {"PUSH_AF"} \cup CallOps => h.registers.sp - 2 >= StackLo

\* What a step leaves in the history variable; h is the machine after the
\* interrupt check, ret the cycles the call returned.
Observed(h, op, imm, ret) ==
    [op |-> IF h.halted THEN "halted" ELSE op,
     tick_op |-> IF h.halted THEN "halted" ELSE op,
     prev_op |-> last.tick_op, prev2_op |-> last.prev_op,
     prev_dispatched |-> last.dispatched,
     pre_enabled |-> ime.enabled, pre_pending |-> ime.enable_pending,
     check_enabled |-> h.ime.enabled \/ h.registers.sp # registers.sp,
     after_enabled |-> h.ime.enabled,
     pending |-> InterruptPending(Machine),
     dispatched |-> h.registers.sp # registers.sp,
     pushed |-> IF h.registers.sp # registers.sp
                THEN MmuRead16(h.memory, h.registers.sp) ELSE 0,
     check_ie |-> MmuRead(h.memory, INTERRUPT_ENABLE_REGISTER),
     check_if |-> MmuRead(h.memory, INTERRUPT_FLAGS_REGISTER),
     pre_pc |-> registers.pc, pre_sp |-> registers.sp,
     pre_ie |-> MmuRead(memory, INTERRUPT_ENABLE_REGISTER),
     pre_if |-> MmuRead(memory, INTERRUPT_FLAGS_REGISTER),
     pre_halted |-> halted,
     fetch_pc |-> h.registers.pc, exec_sp |-> h.registers.sp,
     stack_lo |-> IF h.registers.sp + 1 <= StackHi THEN h.memory[h.registers.sp] ELSE 0,
     stack_hi |-> IF h.registers.sp + 1 <= StackHi THEN h.memory[h.registers.sp + 1] ELSE 0,
     ret |-> ret,
     pre_div |-> MmuRead(memory, DIV_REGISTER),
     pre_div_cycles |-> div_cycles, imm |-> imm,
     div_written |-> \/ last.div_written
                     \/ ~h.halted /\ op = "STOP"
                     \/ ~h.halted /\ op = "LDH_A8_A" /\ 65280 + imm = DIV_REGISTER,
     fed |-> 0, incs |-> 0, stepped |-> FALSE, pre_tima |-> 0,
     addr |-> 0, read_before |-> 0, read_after |-> 0, pre_banking_mode |-> FALSE,
     result |-> "Ok", pre_f |-> registers.f,
     prev_pre_pc |-> last.pre_pc, prev_pre_sp |-> last.pre_sp,
     pre_memory |-> memory]

\* One call of Cpu::tick with the opcode op (and immediate imm) at PC; h is
\* the machine as handle_interrupts leaves it, t as the call leaves it.
Tick(op, imm) ==
    /\ registers.sp - 2 >= StackLo
    /\ \E h \in {handle_interrupts(Machine, irq_revision)} :
         /\ StackFits(h, op)
         /\ \E t \in {Cpu_tick(Machine, irq_revision, op, imm)} :
              /\ registers' = t.registers
              /\ ime' = t.ime
              /\ halted' = t.halted
              /\ cycles' = t.cycles
              /\ div_cycles' = t.div_cycles
              /\ memory' = t.memory
         /\ steps' = steps + 1
         /\ reported' = reported + TickCycles(h, op)
         /\ last' = Observed(h, op, imm, TickCycles(h, op))
    /\ UNCHANGED <<timer, irq_revision, cartridge>>
    /\ UNCHANGED deviceVars

\* A peripheral raises a request the way src/video/ppu.rs does: it reads IF
\* through the typed view, sets its bit and writes the bits back.
RaiseIrq ==
    \E b \in {IRQ_VBLANK, IRQ_TIMER} :
        LET old == MmuRead(memory, INTERRUPT_FLAGS_REGISTER)
            new == BitOr(IrqFromBitsTruncate(old), b)
        IN  /\ new # old
            /\ memory' = MmuWrite(memory, INTERRUPT_FLAGS_REGISTER, new)
            /\ last' = [last EXCEPT !.op = "raise"]
            /\ UNCHANGED <<registers, ime, halted, cycles, div_cycles, timer,
                           irq_revision, cartridge, steps, reported>>
            /\ UNCHANGED deviceVars

Next ==
    \/ steps < MaxSteps /\ Tick("NOP", 0)
    \/ steps < MaxSteps /\ Tick("EI", 0)
    \/ steps < MaxSteps /\ Tick("DI", 0)
    \/ steps < MaxSteps /\ Tick("RETI", 0)
    \/ steps < MaxSteps /\ Tick("HALT", 0)
    \/ steps < MaxSteps /\ RaiseIrq

Spec == Init /\ [][Next]_vars

(***************************************************************************)
(* Properties of the interrupt protocol, checked under Spec.               *)
(***************************************************************************)
TickOps == {"NOP", "EI", "DI", "RETI", "HALT", "halted"}

\* C1: a step that starts with IME off and executes EI ends with IME still
\* off and only enable_pending set; a step that starts with enable_pending
\* set has IME on at its interrupt check; and in EI; NOP; NOP with no
\* dispatch in between, IME is on before the second NOP's interrupt check.
C1_EiEnablesAtNextCheck ==
    /\ (last.op = "EI" /\ ~last.pre_enabled /\ ~last.pre_pending)
          => (~ime.enabled /\ ime.enable_pending)
    /\ (last.op \in TickOps /\ last.pre_pending) => last.check_enabled
    /\ (last.op = "NOP" /\ last.prev_op = "NOP" /\ last.prev2_op = "EI"
            /\ ~last.prev_dispatched)
          => last.pre_enabled

C1_Witness ==
    /\ last.op = "NOP" /\ last.prev_op = "NOP" /\ last.prev2_op = "EI"
    /\ ~last.prev_dispatched
    /\ last.pre_enabled
    /\ steps = 3

\* C2: when a step starts with IME off, an enable pending from the EI of
\* the previous step and IE & IF non-zero, the instruction after EI runs in
\* this step before any dispatch: nothing is dispatched in this step's
\* interrupt check and the instruction is fetched at the PC the step began
\* with.
C2_InstructionAfterEiRunsBeforeDispatch ==
    (last.op \in TickOps /\ last.prev_op = "EI" /\ last.pre_pending
        /\ ~last.pre_enabled /\ last.pending)
      => (~last.dispatched /\ last.fetch_pc = last.pre_pc)

\* The lowest set bit of a non-zero 5-bit value, as a flag bit.
LowestSetBit(x) ==
    CHOOSE b \in {IRQ_VBLANK, IRQ_STAT, IRQ_TIMER, IRQ_SERIAL, IRQ_JOYPAD} :
        /\ BitAnd(x, b) = b
        /\ \A c \in {IRQ_VBLANK, IRQ_STAT, IRQ_TIMER, IRQ_SERIAL, IRQ_JOYPAD} :
              BitAnd(x, c) = c => b <= c

\* C3: a step that starts with IME on and IE & IF non-zero pushes the PC it
\* began with, continues at the vector of the lowest bit set in IE & IF,
\* clears exactly that bit of IF, leaves the other bits of IF and all of IE
\* as they were, and clears IME.
C3_DispatchServicesLowestEnabledRequest ==
    (last.op \in TickOps /\ last.pre_enabled /\ last.pending)
      => /\ last.dispatched
         /\ last.pushed = last.pre_pc
         /\ last.fetch_pc =
               Vector_to_address(LowestSetBit(BitAnd(BitAnd(last.pre_ie, last.pre_if), IrqAll)))
         /\ last.check_if =
               last.pre_if - LowestSetBit(BitAnd(BitAnd(last.pre_ie, last.pre_if), IrqAll))
         /\ last.check_ie = last.pre_ie
         /\ ~last.after_enabled

\* C4: a step that executes RETI ends with PC equal to the little-endian
\* word that was on top of the stack, SP two higher, and IME on.
C4_RetiPopsAndEnables ==
    last.op = "RETI"
      => /\ registers.pc = last.stack_hi * 256 + last.stack_lo
         /\ registers.sp = last.exec_sp + 2
         /\ ime.enabled

C4_Witness ==
    /\ last.op = "RETI"
    /\ last.dispatched
    /\ last.stack_lo # last.stack_hi
    /\ registers.pc = last.pre_pc
    /\ registers.sp = last.pre_sp
    /\ ime.enabled

\* C21: after any step that executes DI, IME.enabled and IME.enable_pending
\* are both false, DI placed directly after EI included.
C21_DiClearsBoth ==
    last.op = "DI" => (~ime.enabled /\ ~ime.enable_pending)

C21_Witness ==
    /\ last.op = "DI" /\ last.prev_op = "EI"
    /\ last.pre_pending /\ ~last.pre_enabled /\ last.check_enabled
    /\ ~ime.enabled /\ ~ime.enable_pending

\* C22: a halted CPU stays halted while IE & IF = 0, each such step
\* reporting 4 cycles and changing no register and no memory; the first step
\* with IE & IF # 0 leaves the halted state whether or not IME is on, and
\* with IME off it resumes at the instruction after HALT without dispatching.
C22_HaltedStepIsIdle ==
    (halted /\ ~InterruptPending(Machine) /\ last'.op # "raise")
      => /\ halted'
         /\ last'.op = "halted"
         /\ registers' = registers
         /\ memory' = memory
         /\ reported' = reported + 4

C22_WakesOnRequest ==
    (last.op \in TickOps /\ last.pre_halted /\ last.pending)
      => /\ last.op # "halted"
         /\ halted <=> last.op = "HALT"
         /\ (~last.pre_enabled /\ ~last.pre_pending)
               => (~last.dispatched /\ last.fetch_pc = last.pre_pc)

C22_HaltUntilRequest == []C22_WakesOnRequest /\ [][C22_HaltedStepIsIdle]_vars

C22_Witness ==
    /\ last.op = "NOP" /\ last.prev_op = "halted" /\ last.prev2_op = "HALT"
    /\ last.pre_halted /\ last.pending
    /\ ~last.pre_enabled /\ ~last.dispatched
    /\ ~halted /\ registers.pc = last.pre_pc + 1

\* C23: the 20 cycles of an interrupt dispatch are added to the CPU's
\* elapsed cycles exactly in the steps that dispatch (IME on and
\* IE & IF # 0); a step with IE & IF # 0 and IME off adds only the cycles of
\* its instruction.
C23_StepCycles ==
    last'.op \in TickOps
      => cycles' = cycles + last'.ret + (IF last'.dispatched THEN 20 ELSE 0)

C23_DispatchCostOnlyOnDispatch == [][C23_StepCycles]_vars

\* What the code keeps of C23: the 20 cycles are added in every step whose
\* interrupt check finds IE & IF # 0.
C23_StepCyclesOnRequest ==
    last'.op \in TickOps
      => cycles' = cycles + last'.ret + (IF last'.pending THEN 20 ELSE 0)

C23_CostOnEveryRequest == [][C23_StepCyclesOnRequest]_vars

(***************************************************************************)
(* Specification SpecRegs: writes to F and AF.  The harness and the script *)
(* engine call Cpu::write_register and Cpu::write_register16               *)
(* (src/tests.rs, src/rhai_engine.rs); the program reaches F through       *)
(* POP AF and the flag updates of SCF and CCF.                             *)
(***************************************************************************)
MaxRegSteps == 3

FlagBytes == {0, 15, 165, 255}

AfWords == {4607, 43981}

WriteF(data) ==
    /\ registers' = write_register_F(Machine, data).registers
    /\ steps' = steps + 1
    /\ last' = [NoLast EXCEPT !.op = "write_F", !.imm = data]
    /\ UNCHANGED <<ime, halted, cycles, div_cycles, memory, timer, irq_revision,
                   cartridge, reported>>
    /\ UNCHANGED deviceVars

WriteAF(value) ==
    /\ registers' = write_register16_AF(Machine, value).registers
    /\ steps' = steps + 1
    /\ last' = [NoLast EXCEPT !.op = "write_AF", !.imm = value]
    /\ UNCHANGED <<ime, halted, cycles, div_cycles, memory, timer, irq_revision,
                   cartridge, reported>>
    /\ UNCHANGED deviceVars

InitRegs ==
    /\ CpuStarted(0, 0, 0)
    /\ irq_revision \in IrqRevisions

NextRegs ==
    \/ steps < MaxRegSteps /\ \E data \in FlagBytes : WriteF(data)
    \/ steps < MaxRegSteps /\ \E value \in AfWords : WriteAF(value)
    \/ steps < MaxRegSteps /\ Tick("POP_AF", 0)
    \/ steps < MaxRegSteps /\ Tick("PUSH_AF", 0)
    \/ steps < MaxRegSteps /\ Tick("SCF", 0)
    \/ steps < MaxRegSteps /\ Tick("CCF", 0)

SpecRegs == InitRegs /\ [][NextRegs]_vars

\* C5: the low nibble of F is zero in every state; a write of any byte to F
\* reads back as that byte with its low nibble cleared, a write of a word to
\* AF and POP AF keep only bits 7-4 of the low byte.
C5_LowNibbleOfFIsZero ==
    /\ registers.f % 16 = 0
    /\ last.op = "write_F" => registers.f = last.imm - (last.imm % 16)
    /\ last.op = "write_AF" => registers.f = (last.imm % 256) - (last.imm % 16)
    /\ last.op = "POP_AF" => registers.f = last.stack_lo - (last.stack_lo % 16)

C5_Witness ==
    /\ last.op = "POP_AF"
    /\ last.stack_lo % 16 # 0
    /\ registers.f = last.stack_lo - (last.stack_lo % 16)
    /\ registers.f # 0

(***************************************************************************)
(* Specification SpecDiv: the divider.  The CPU has run NOPs since reset   *)
(* (none, or enough to bring the sub-counter close to 256) and goes on     *)
(* with NOP, HALT, STOP, LD A,d8 and LDH (a8),A while a peripheral may     *)
(* raise a request.                                                        *)
(***************************************************************************)
MaxDivSteps == 4

NopsBefore == 62

DivImmediates == {0, 85}

DivTargets == {4, 6}

InitDiv ==
    /\ \E nops \in {0, NopsBefore} : CpuStarted(nops, 4, 0)
    /\ irq_revision = "enable_and_flags"

NextDiv ==
    \/ steps < MaxDivSteps /\ Tick("NOP", 0)
    \/ steps < MaxDivSteps /\ Tick("HALT", 0)
    \/ steps < MaxDivSteps /\ Tick("STOP", 0)
    \/ steps < MaxDivSteps /\ \E imm \in DivImmediates : Tick("LD_A_D8", imm)
    \/ steps < MaxDivSteps /\ \E imm \in DivTargets : Tick("LDH_A8_A", imm)
    \/ steps < MaxDivSteps /\ RaiseIrq

SpecDiv == InitDiv /\ [][NextDiv]_vars

\* C7: as long as nothing has written DIV, DIV reads (N / 256) mod 256 where
\* N is the total of the T-cycles the steps since reset have returned,
\* halted steps included.
C7_DivFollowsReportedCycles ==
    ~last.div_written
      => MmuRead(memory, DIV_REGISTER) = (reported \div 256) % 256

\* C8: after a step that writes any value to 0xFF04, or executes STOP, DIV
\* reads 0 and the sub-counter holds no more than that step's own cycles,
\* so that the next increment of DIV comes 256 T-cycles later.
C8_DivWriteClearsCounter ==
    (last.op = "STOP" \/ (last.op = "LDH_A8_A" /\ 65280 + last.imm = DIV_REGISTER))
      => /\ MmuRead(memory, DIV_REGISTER) = 0
         /\ div_cycles <= last.ret

(***************************************************************************)
(* Timer (src/lr35902/timer.rs).  tick_tima is given the cycles of one     *)
(* instruction; the pair of operators below gives the memory and the       *)
(* Timer fields it leaves.                                                 *)
(***************************************************************************)
Prescale(tac) ==
    CASE tac % 4 = 0 -> 1024
      [] tac % 4 = 1 -> 16
      [] tac % 4 = 2 -> 64
      [] tac % 4 = 3 -> 256

TimerEnabled(mem) == Bit(MmuRead(mem, TAC_REGISTER), 2) = 1

\* the test of line 46, after tima_cycles += cycles
TimaDue(t, mem, c) == t.tima_cycles + c >= Prescale(MmuRead(mem, TAC_REGISTER))

\* the overflow arm: TIMA <- TMA, then IF <- (typed view of IF | TIMER).bits()
TimaOverflow(mem) ==
    MmuWrite(MmuWrite(mem, TIMA_REGISTER, MmuRead(mem, TMA_REGISTER)),
             INTERRUPT_FLAGS_REGISTER,
             BitOr(IrqFromBitsTruncate(MmuRead(mem, INTERRUPT_FLAGS_REGISTER)), IRQ_TIMER))

\* the same arm with IF written back as the whole byte, for comparison
TimaStepKeepByte(mem) ==
    IF MmuRead(mem, TIMA_REGISTER) = 255
    THEN MmuWrite(MmuWrite(mem, TIMA_REGISTER, MmuRead(mem, TMA_REGISTER)),
                  INTERRUPT_FLAGS_REGISTER,
                  BitOr(MmuRead(mem, INTERRUPT_FLAGS_REGISTER), IRQ_TIMER))
    ELSE MmuWrite(mem, TIMA_REGISTER, MmuRead(mem, TIMA_REGISTER) + 1)

\* lines 47-55: reload and request on 0xFF, otherwise TIMA + 1
TimaStep(mem) ==
    IF MmuRead(mem, TIMA_REGISTER) = 255
    THEN TimaOverflow(mem)
    ELSE MmuWrite(mem, TIMA_REGISTER, MmuRead(mem, TIMA_REGISTER) + 1)

tick_tima_memory(t, mem, c) ==
    IF TimerEnabled(mem) /\ TimaDue(t, mem, c) THEN TimaStep(mem) ELSE mem

tick_tima_timer(t, mem, c) ==
    IF ~TimerEnabled(mem)
    THEN t
    ELSE [t EXCEPT !.tima_cycles =
             IF TimaDue(t, mem, c)
             THEN t.tima_cycles + c - Prescale(MmuRead(mem, TAC_REGISTER))
             ELSE t.tima_cycles + c]

(***************************************************************************)
(* Specification SpecTimer: Timer::tick_tima fed the cycles of one         *)
(* instruction at a time, from a freshly constructed Timer, with TAC,      *)
(* TIMA, TMA and IF as the program left them.                              *)
(***************************************************************************)
MaxTimerSteps == 4

CycleChunks == {4, 12, 16, 24}

TimerControls == {1, 4, 5, 6}

TimerCounters == {0, 254, 255}

TimerModulos == {0, 171}

TimerFlags == {0, 225}

TimerMemory(tac, tima, tma, if) ==
    [a \in MemAddrs |->
        CASE a = TAC_REGISTER -> tac
          [] a = TIMA_REGISTER -> tima
          [] a = TMA_REGISTER -> tma
          [] a = INTERRUPT_FLAGS_REGISTER -> if
          [] OTHER -> 0]

InitTimer ==
    /\ \E tac \in TimerControls, tima \in TimerCounters, tma \in TimerModulos,
          if \in TimerFlags :
            CpuStartedWith(0, TimerMemory(tac, tima, tma, if), NoCartridge)
    /\ irq_revision = "enable_and_flags"

TickTima(c) ==
    /\ timer' = tick_tima_timer(timer, memory, c)
    /\ memory' = tick_tima_memory(timer, memory, c)
    /\ steps' = steps + 1
    /\ last' = [NoLast EXCEPT
                  !.op = "tick_tima", !.imm = c,
                  !.fed = last.fed + c,
                  !.incs = last.incs +
                      (IF timer'.tima_cycles # timer.tima_cycles + c
                          /\ TimerEnabled(memory) THEN 1 ELSE 0),
                  !.stepped = (timer'.tima_cycles # timer.tima_cycles + c
                                  /\ TimerEnabled(memory)),
                  !.pre_if = MmuRead(memory, INTERRUPT_FLAGS_REGISTER),
                  !.pre_tima = MmuRead(memory, TIMA_REGISTER)]
    /\ UNCHANGED <<registers, ime, halted, cycles, div_cycles, irq_revision,
                   cartridge, reported>>
    /\ UNCHANGED deviceVars

NextTimer ==
    steps < MaxTimerSteps /\ \E c \in CycleChunks : TickTima(c)

SpecTimer == InitTimer /\ [][NextTimer]_vars

\* C9: with TAC bit 2 set, after N T-cycles fed in chunks of one
\* instruction each, TIMA has been incremented floor(N / P) times, P the
\* prescale TAC selects.
C9_TimaIncrementsPerPrescale ==
    (last.op = "tick_tima" /\ TimerEnabled(memory))
      => last.incs = last.fed \div Prescale(MmuRead(memory, TAC_REGISTER))

RomByte(i) == (i \div 16384 + i \div 4194304 + i) % 256

RomAt(c, i) == IF i < c.rom_banks * 16384 THEN RomByte(i) ELSE -1

\* Mapper::read for 0x0000-0x7FFF: slot 0 is the image itself, slot 1 the
\* bank rom_bank selects (Rom reads the image in both halves).
MapperRead(c, addr) ==
    IF c.kind = "ROM" \/ addr <= 16383
    THEN RomAt(c, addr)
    ELSE RomAt(c, (addr % 16384) + c.rom_bank * 16384)

\* Mbc1::new, Mbc3::new, Mbc5::new over an image of banks 16 KiB banks.  ram
\* holds the cells of the zero-filled RAM array that have been written.
NewCartridge(kind, banks) ==
    [kind |-> kind, rom_banks |-> banks, rom_bank |-> 1, ram_bank |-> 0,
     ram_enabled |-> FALSE, banking_mode |-> FALSE,
     secondary_banking_allowed |-> (kind = "MBC1" /\ banks * 16384 > 524288),
     rtc_mapped |-> FALSE,
     ram_size |-> CASE kind = "ROM" -> 0 [] kind = "MBC1" -> 8192 [] OTHER -> 32768,
     ram |-> <<>>]

\* The guard of the second 0x4000-0x5FFF arm of Mbc1::write.  The first
\* definition drops the guard, for comparison.
Mbc1UpperBitsAlways(c) == TRUE

Mbc1UpperBitsSelected(c) == c.banking_mode

Mbc1Write(c, addr, data) ==
    CASE addr <= 8191 -> [c EXCEPT !.ram_enabled = (data % 16 = 10)]
      [] addr \in 8192 .. 16383 ->
            [c EXCEPT !.rom_bank = IF data % 32 = 0 THEN 1 ELSE data % 32]
      [] addr \in 16384 .. 24575 /\ ~Mbc1UpperBitsSelected(c) ->
            IF c.secondary_banking_allowed
            THEN [c EXCEPT !.ram_bank = data % 4] ELSE c
      [] addr \in 16384 .. 24575 /\ Mbc1UpperBitsSelected(c) ->
            IF c.secondary_banking_allowed
            THEN [c EXCEPT !.rom_bank = (c.rom_bank % 32) + (data % 4) * 32] ELSE c
      [] addr \in 24576 .. 32767 -> [c EXCEPT !.banking_mode = (data % 2 = 1)]

Mbc3Write(c, addr, data) ==
    CASE addr <= 8191 -> [c EXCEPT !.ram_enabled = (data % 16 = 10)]
      [] addr \in 8192 .. 16383 ->
            [c EXCEPT !.rom_bank = IF data % 128 = 0 THEN 1 ELSE data % 128]
      [] addr \in 16384 .. 24575 /\ data <= 3 ->
            [c EXCEPT !.rtc_mapped = FALSE, !.ram_bank = data % 16]
      [] addr \in 16384 .. 24575 /\ data > 3 -> [c EXCEPT !.rtc_mapped = TRUE]
      [] OTHER -> c

Mbc5Write(c, addr, data) ==
    CASE addr <= 8191 -> [c EXCEPT !.ram_enabled = (data % 16 = 10)]
      [] addr \in 8192 .. 12287 ->
            [c EXCEPT !.rom_bank = (c.rom_bank \div 256) * 256 + data]
      [] addr \in 12288 .. 16383 ->
            [c EXCEPT !.rom_bank = (c.rom_bank % 256) + (data % 2) * 256]
      [] addr \in 16384 .. 24575 -> [c EXCEPT !.ram_bank = data % 16]
      [] OTHER -> c

\* Mapper::write for 0x0000-0x7FFF; Rom::write changes nothing.
MapperWrite(c, addr, data) ==
    CASE c.kind = "ROM" -> c
      [] c.kind = "MBC1" -> Mbc1Write(c, addr, data)
      [] c.kind = "MBC3" -> Mbc3Write(c, addr, data)
      [] c.kind = "MBC5" -> Mbc5Write(c, addr, data)

\* What Mapper::write returns: only Rom::write fails in this range.
MapperWriteResult(c, addr) ==
    IF c.kind = "ROM" THEN "WriteToReadOnlyMemory" ELSE "Ok"

(***************************************************************************)
(* Specification SpecMapper: the program writes bytes into 0x0000-0x7FFF   *)
(* of a freshly loaded cartridge (Mmu::new with the mapper the header      *)
(* selects); each write is Mmu::write, which hands the access to the       *)
(* mapper.                                                                 *)
(***************************************************************************)
MaxRomWrites == 3

Cartridges ==
    {NewCartridge("ROM", 2), NewCartridge("MBC1", 4), NewCartridge("MBC1", 128),
     NewCartridge("MBC3", 128), NewCartridge("MBC5", 512)}

RomAddrs == {0, 8191, 8192, 12288, 16383, 16384, 24575, 24576, 32767}

RomData == {0, 1, 2, 10, 35}

InitMapper ==
    /\ \E cart \in Cartridges : CpuStartedWith(0, InitMemory(0, 0), cart)
    /\ irq_revision = "enable_and_flags"

\* Mmu::write(addr, data) with addr in the ROM range, and the byte Mmu::read
\* gives at addr before and after it
RomWrite(addr, data) ==
    /\ cartridge' = MapperWrite(cartridge, addr, data)
    /\ steps' = steps + 1
    /\ last' = [NoLast EXCEPT
                  !.op = "rom_write", !.addr = addr, !.imm = data,
                  !.read_before = MapperRead(cartridge, addr),
                  !.read_after = MapperRead(cartridge', addr),
                  !.pre_banking_mode = cartridge.banking_mode,
                  !.result = MapperWriteResult(cartridge, addr)]
    /\ UNCHANGED <<registers, ime, halted, cycles, div_cycles, memory, timer,
                   irq_revision, reported>>
    /\ UNCHANGED deviceVars

NextMapper ==
    steps < MaxRomWrites /\ \E addr \in RomAddrs, data \in RomData : RomWrite(addr, data)

SpecMapper == InitMapper /\ [][NextMapper]_vars

LCD_CONTROL_REGISTER == 65344

LCD_STATUS_REGISTER == 65345

SCANLINE_Y_REGISTER == 65348

SCANLINE_Y_COMPARE_REGISTER == 65349

WINDOW_Y_REGISTER == 65354

WINDOW_X_REGISTER == 65355

LCD_DISPLAY == 128

WINDOW_DISPLAY == 32

\* LcdStatus is used by ppu.rs but declared nowhere in the tree; bit 6 is the
\* LYC=LY interrupt enable of the STAT register.
LYC_EQ_LY_ENABLE == 64

VideoAddrs == {LCD_CONTROL_REGISTER, LCD_STATUS_REGISTER, SCANLINE_Y_REGISTER,
               SCANLINE_Y_COMPARE_REGISTER, WINDOW_Y_REGISTER, WINDOW_X_REGISTER}

\* State::as_u8
State_as_u8(state) ==
    CASE state = "HBlank" -> 0
      [] state = "VBlank" -> 1
      [] state = "OamScan" -> 2
      [] state = "Drawing" -> 3

\* Mmu::read of LCD_STATUS_REGISTER: the low two bits come from
\* Mmu.last_ppu_state, which Mmu::new sets to OamScan and only
\* cache_ppu_state (never called) changes.
ReadLcdStatus(mem) ==
    BitOr(BitAnd(mem[LCD_STATUS_REGISTER], 252), State_as_u8("OamScan"))

LcdEnabled(mem) == BitAnd(mem[LCD_CONTROL_REGISTER], LCD_DISPLAY) # 0

\* The window line counter w after the window test of one line.
WindowLine(w, mem) ==
    IF /\ BitAnd(mem[LCD_CONTROL_REGISTER], WINDOW_DISPLAY) # 0
       /\ mem[WINDOW_X_REGISTER] <= 166
       /\ mem[WINDOW_Y_REGISTER] <= 143
    THEN IF mem[SCANLINE_Y_REGISTER] = mem[WINDOW_Y_REGISTER]
         THEN 0
         ELSE IF mem[SCANLINE_Y_REGISTER] > mem[WINDOW_Y_REGISTER]
              THEN w + 1
              ELSE w
    ELSE w

handle_window_line_counter(p, mem) ==
    [p EXCEPT !.window_line_counter =
        WindowLine(IF mem[SCANLINE_Y_REGISTER] = 0 THEN 0 ELSE @, mem)]

\* The u8 addition cannot overflow while LY stays below 255.
progress_scanline(mem) ==
    [mem EXCEPT ![SCANLINE_Y_REGISTER] = IF @ + 1 >= 154 THEN 0 ELSE @ + 1]

\* Ppu::handle_interrupts: the flags go through the five-bit typed view and
\* are written back on every line.  The first definition compares LY with LYC
\* only and leaves the LY = 153, LYC = 0 case out, for comparison.
Ppu_handle_interrupts_plain_compare(mem) ==
    [mem EXCEPT ![INTERRUPT_FLAGS_REGISTER] =
        IF /\ BitAnd(ReadLcdStatus(mem), LYC_EQ_LY_ENABLE) # 0
           /\ mem[SCANLINE_Y_REGISTER] = mem[SCANLINE_Y_COMPARE_REGISTER]
        THEN BitOr(IrqFromBitsTruncate(@), IRQ_STAT)
        ELSE IrqFromBitsTruncate(@)]

Ppu_handle_interrupts(mem) ==
    [mem EXCEPT ![INTERRUPT_FLAGS_REGISTER] =
        IF /\ BitAnd(ReadLcdStatus(mem), LYC_EQ_LY_ENABLE) # 0
           /\ \/ mem[SCANLINE_Y_REGISTER] = mem[SCANLINE_Y_COMPARE_REGISTER]
              \/ /\ mem[SCANLINE_Y_REGISTER] = 153
                 /\ mem[SCANLINE_Y_COMPARE_REGISTER] = 0
        THEN BitOr(IrqFromBitsTruncate(@), IRQ_STAT)
        ELSE IrqFromBitsTruncate(@)]

\* Ppu::tick.  render_scanline fills one framebuffer row from the memory and
\* feeds nothing back; the row is not part of the state here.
Ppu_tick(p, mem) ==
    IF LcdEnabled(mem)
    THEN [ppu |-> handle_window_line_counter(p, mem),
          memory |-> Ppu_handle_interrupts(progress_scanline(mem))]
    ELSE [ppu |-> p, memory |-> mem]

MaxMasterClock == 71136

LcdControls == {145, 17}

LineCompares == {0, 2}

VideoMemory(lcdc, lyc) ==
    [a \in MemAddrs \cup VideoAddrs |->
        CASE a = LCD_CONTROL_REGISTER -> lcdc
          [] a = LCD_STATUS_REGISTER -> 64
          [] a = SCANLINE_Y_COMPARE_REGISTER -> lyc
          [] a = INTERRUPT_FLAGS_REGISTER -> 224
          [] OTHER -> 0]

InitPpu ==
    /\ \E lcdc \in LcdControls, lyc \in LineCompares :
          CpuStartedWith(0, VideoMemory(lcdc, lyc), NoCartridge)
    /\ irq_revision = "enable_and_flags"

\* The master clock after the head of one loop iteration (gameboy.rs:64-70).
ClockAdvanced(g) ==
    [g EXCEPT !.master_clock = @ + 1,
              !.master_clock_penalty = IF @ > 0 THEN @ - 1 ELSE 0]

CpuSteps(g) == g.master_clock % 4 = 0 /\ g.master_clock_penalty = 0

\* One iteration of the loop of GameBoy::run_frame.  The program is a run of
\* NOPs, so the CPU step writes no video register.
RunFrameStep ==
    /\ gameboy.running
    /\ gameboy.master_clock < MaxMasterClock
    /\ \E g \in {ClockAdvanced(gameboy)} :
         \E t \in {IF CpuSteps(g)
                   THEN Cpu_tick(Machine, irq_revision, "NOP", 0)
                   ELSE Machine} :
           \E v \in {IF g.master_clock % 456 = 0
                     THEN Ppu_tick(ppu, t.memory)
                     ELSE [ppu |-> ppu, memory |-> t.memory]} :
             /\ registers' = t.registers /\ ime' = t.ime /\ halted' = t.halted
             /\ cycles' = t.cycles /\ div_cycles' = t.div_cycles
             /\ memory' = v.memory
             /\ ppu' = v.ppu
             /\ gameboy' = [g EXCEPT !.master_clock_penalty =
                                IF CpuSteps(g) /\ TickCycles(Machine, "NOP") > 4
                                THEN TickCycles(Machine, "NOP") \div 4 ELSE @]
             /\ steps' = IF CpuSteps(g) THEN steps + 1 ELSE steps
             /\ reported' = IF CpuSteps(g)
                            THEN reported + TickCycles(Machine, "NOP")
                            ELSE reported
             /\ last' = [op |-> "clock",
                         pre_ly |-> memory[SCANLINE_Y_REGISTER],
                         frame_done |-> (g.master_clock % 70224 = 0)]
    /\ UNCHANGED <<timer, irq_revision, cartridge, joypad, cgb, sm83>>

NextPpu == RunFrameStep

SpecPpu == InitPpu /\ [][NextPpu]_vars

\* The phase the timing table gives for T-cycle t of a visible line.
PhaseAt(t) ==
    IF t < 80 THEN "OamScan" ELSE IF t < 252 THEN "Drawing" ELSE "HBlank"

\* C11: with the LCD enabled, a visible line is in OAM Scan for its first 80
\* T-cycles, in Drawing for the next 172 and in HBlank for the last 204, LY
\* stays within 0..153, lines 144..153 are in VBlank, and LY counts the
\* 456-cycle lines modulo 154, so it wraps once per 70224 T-cycles.
C11_LinePhasesFollowTimingTable ==
    (last.op = "clock" /\ LcdEnabled(memory)) =>
        /\ memory[SCANLINE_Y_REGISTER] \in 0 .. 153
        /\ memory[SCANLINE_Y_REGISTER] = (gameboy.master_clock \div 456) % 154
        /\ memory[SCANLINE_Y_REGISTER] < 144 =>
               ppu.state = PhaseAt(gameboy.master_clock % 456)
        /\ memory[SCANLINE_Y_REGISTER] >= 144 => ppu.state = "VBlank"


(***************************************************************************)
(* Sprites (src/video/ppu.rs, src/video/sprite.rs, src/video/tile.rs).     *)
(* Ppu::render_scanline asks fetch_sprite_pixel, for every x of the        *)
(* scanline in LY, which sprite of the 40 OAM entries shows there.  DMG    *)
(* mode; tiles come from VRAM bank 0.                                      *)
(***************************************************************************)
OAM_ADDRESS == 65024

TILESET_0_ADDRESS == 32768

SCREEN_WIDTH == 160

SCREEN_HEIGHT == 144

OBJ_DISPLAY == 2

OBJ_SIZE == 4

SPRITE_FLIP_X == 32

SPRITE_FLIP_Y == 64

SPRITE_PRIORITY == 128

OamEntries == 40

Max(a, b) == IF a >= b THEN a ELSE b

Min(a, b) == IF a <= b THEN a ELSE b

\* a < (v as usize) for a screen coordinate a and an i32 v: a negative v
\* casts to a usize above every coordinate.
LessThanAsUsize(a, v) == IF v < 0 THEN TRUE ELSE a < v

\* u8::saturating_sub
SaturatingSub(a, b) == IF a >= b THEN a - b ELSE 0

\* Sprite::from_oam
Sprite_from_oam(mem, index) ==
    [y |-> mem[OAM_ADDRESS + index * 4],
     x |-> mem[OAM_ADDRESS + index * 4 + 1],
     tile_index |-> mem[OAM_ADDRESS + index * 4 + 2],
     attributes |-> BitAnd(mem[OAM_ADDRESS + index * 4 + 3], 240),
     oam_index |-> index]

\* The range test of fetch_sprite_pixel (ppu.rs:455-459).
SpriteCovers(sprite, x, y, sprite_height) ==
    /\ x >= Max(sprite.x - 8, 0)
    /\ LessThanAsUsize(x, Min(sprite.x - 8 + 8, SCREEN_WIDTH))
    /\ y >= Max(sprite.y - 16, 0)
    /\ LessThanAsUsize(y, Min(sprite.y - 16 + sprite_height, SCREEN_HEIGHT))

\* tile_x and tile_y of fetch_sprite_pixel; the differences fit a u8.
SpriteTileX(sprite, x) ==
    IF BitAnd(sprite.attributes, SPRITE_FLIP_X) # 0
    THEN SaturatingSub(7, Max(x - (sprite.x - 8), 0))
    ELSE Max(x - (sprite.x - 8), 0)

SpriteTileY(sprite, y, sprite_height) ==
    IF BitAnd(sprite.attributes, SPRITE_FLIP_Y) # 0
    THEN SaturatingSub(sprite_height - 1, Max(y - (sprite.y - 16), 0))
    ELSE Max(y - (sprite.y - 16), 0)

\* Tile::from_sprite: the colour index of pixel (row, col) of the tile at
\* address.
TilePixel(mem, address, row, col) ==
    2 * Bit(mem[address + row * 2 + 1], 7 - col) + Bit(mem[address + row * 2], 7 - col)

\* The tile addresses fetch_oams computes (ppu.rs:406-442).
SpriteTileAddress(sprite, tile_y, sprite_height) ==
    IF sprite_height = 16
    THEN TILESET_0_ADDRESS + (BitAnd(sprite.tile_index, 254) + tile_y \div 8) * 16
    ELSE TILESET_0_ADDRESS + sprite.tile_index * 16

\* The colour index the sprite shows at (x, y); 0 is transparent.
SpriteColor(mem, sprite, x, y, sprite_height) ==
    IF /\ SpriteCovers(sprite, x, y, sprite_height)
       /\ SpriteTileX(sprite, x) < 8
       /\ SpriteTileY(sprite, y, sprite_height) < sprite_height
    THEN TilePixel(mem,
                   SpriteTileAddress(sprite, SpriteTileY(sprite, y, sprite_height),
                                     sprite_height),
                   SpriteTileY(sprite, y, sprite_height) % 8,
                   SpriteTileX(sprite, x))
    ELSE 0

\* The OAM entries with an opaque pixel at (x, y).
SpriteCandidates(mem, x, y, sprite_height) ==
    {i \in 0 .. OamEntries - 1 :
        SpriteColor(mem, Sprite_from_oam(mem, i), x, y, sprite_height) # 0}

\* fetch_sprite_pixel in DMG mode: the stable sort by x puts first the
\* candidate of least x, and among those the one of least OAM index.
\* -1 stands for None.
fetch_sprite_pixel(mem, x, y, sprite_height) ==
    IF SpriteCandidates(mem, x, y, sprite_height) = {}
    THEN -1
    ELSE CHOOSE i \in SpriteCandidates(mem, x, y, sprite_height) :
            \A j \in SpriteCandidates(mem, x, y, sprite_height) :
               \/ Sprite_from_oam(mem, i).x < Sprite_from_oam(mem, j).x
               \/ /\ Sprite_from_oam(mem, i).x = Sprite_from_oam(mem, j).x
                  /\ i <= j

SpriteHeight(mem) ==
    IF BitAnd(mem[LCD_CONTROL_REGISTER], OBJ_SIZE) # 0 THEN 16 ELSE 8

\* The OAM entry render_scanline draws at x of scanline LY over a background
\* pixel of colour index bg (the window is transparent there), or -1.
SpriteDrawn(mem, x, bg) ==
    IF /\ mem[SCANLINE_Y_REGISTER] < SCREEN_HEIGHT
       /\ LcdEnabled(mem)
       /\ BitAnd(mem[LCD_CONTROL_REGISTER], OBJ_DISPLAY) # 0
       /\ fetch_sprite_pixel(mem, x, mem[SCANLINE_Y_REGISTER], SpriteHeight(mem)) # -1
       /\ ~ /\ BitAnd(Sprite_from_oam(mem, fetch_sprite_pixel(mem, x,
                          mem[SCANLINE_Y_REGISTER], SpriteHeight(mem))).attributes,
                      SPRITE_PRIORITY) # 0
            /\ bg # 0
    THEN fetch_sprite_pixel(mem, x, mem[SCANLINE_Y_REGISTER], SpriteHeight(mem))
    ELSE -1

SpriteYs == {0, 5, 15, 16, 100, 159, 160, 200}

SpriteXs == {0, 1, 8, 167, 168, 255}

SpriteAttrs == {0, 32, 64, 96, 128}

SpriteLcdControls == {147, 151, 145}

ScanLines == {0, 1, 50, 143}

PixelXs == {0, 7, 80, 159}

\* OAM entry 0 holds the sprite, entry 1 a plain sprite at (40, 40), the
\* other entries are zero; tiles 0 and 1 are opaque in every pixel.
SpriteAddrs ==
    (OAM_ADDRESS .. OAM_ADDRESS + OamEntries * 4 - 1)
        \cup (TILESET_0_ADDRESS .. TILESET_0_ADDRESS + 31)
        \cup VideoAddrs

SpriteMemory(y, x, attr, lcdc, ly) ==
    [a \in SpriteAddrs |->
        CASE a = OAM_ADDRESS -> y
          [] a = OAM_ADDRESS + 1 -> x
          [] a = OAM_ADDRESS + 3 -> attr
          [] a \in {OAM_ADDRESS + 4, OAM_ADDRESS + 5} -> 40
          [] a \in TILESET_0_ADDRESS .. TILESET_0_ADDRESS + 31 -> 255
          [] a = LCD_CONTROL_REGISTER -> lcdc
          [] a = SCANLINE_Y_REGISTER -> ly
          [] OTHER -> 0]

InitSprite ==
    \E y \in SpriteYs, x \in SpriteXs, attr \in SpriteAttrs,
       lcdc \in SpriteLcdControls, ly \in ScanLines :
        /\ CpuStartedWith(0, SpriteMemory(y, x, attr, lcdc, ly), NoCartridge)
        /\ irq_revision = "enable_and_flags"

\* render_scanline reaches pixel x of the scanline.
RenderPixel(x, bg) ==
    /\ last.op = "init"
    /\ last' = [op |-> "render", x |-> x, bg |-> bg,
                drawn |-> SpriteDrawn(memory, x, bg)]
    /\ UNCHANGED <<registers, ime, halted, cycles, div_cycles, memory, timer,
                   irq_revision, cartridge, steps, reported>>
    /\ UNCHANGED deviceVars

NextSprite == \E x \in PixelXs, bg \in {0, 1} : RenderPixel(x, bg)

SpecSprite == InitSprite /\ [][NextSprite]_vars

\* C12: a sprite whose OAM x is 0 or at least 168, or whose OAM y is 0 or at
\* least 160, is drawn at no pixel of any scanline, whatever the sprite
\* height and the flips.
C12_OffscreenSpriteDrawsNothing ==
    (/\ last.op = "render"
     /\ \/ memory[OAM_ADDRESS + 1] = 0
        \/ memory[OAM_ADDRESS + 1] >= 168
        \/ memory[OAM_ADDRESS] = 0
        \/ memory[OAM_ADDRESS] >= 160)
        => last.drawn # 0


(***************************************************************************)
(* The joypad (src/joypad.rs).                                             *)
(***************************************************************************)
Buttons == {"up", "down", "left", "right", "a", "b", "start", "select"}

\* The low-nibble bit as_u8 sets for a held button: [button row, d-pad row].
ButtonRowBit(n) ==
    CASE n = 3 -> <<"start", "down">>
      [] n = 2 -> <<"select", "up">>
      [] n = 1 -> <<"b", "left">>
      [] n = 0 -> <<"a", "right">>

\* The nibble of the row as_u8 reads: row 1 the buttons, row 2 the d-pad.
RowNibble(joy, row) ==
    (IF ButtonRowBit(3)[row] \in joy THEN 8 ELSE 0)
        + (IF ButtonRowBit(2)[row] \in joy THEN 4 ELSE 0)
        + (IF ButtonRowBit(1)[row] \in joy THEN 2 ELSE 0)
        + (IF ButtonRowBit(0)[row] \in joy THEN 1 ELSE 0)

\* Joypad::as_u8
Joypad_as_u8(joy, joypad_state) ==
    BitNot(BitAnd(joypad_state, 240)
             + (IF BitAnd(joypad_state, 32) = 0
                THEN RowNibble(joy, 1)
                ELSE IF BitAnd(joypad_state, 16) = 0
                     THEN RowNibble(joy, 2)
                     ELSE 0))

(***************************************************************************)
(* The whole of Mapper::read and Mapper::write, external RAM included      *)
(* (src/memory/mapper/*.rs).  A read or write gives a result: "Ok", the    *)
(* error kind, or "panic" for an index past the end of a Vec.              *)
(***************************************************************************)
ROM_END == 32767

EXTERNAL_RAM_START == 40960

EXTERNAL_RAM_END == 49151

RamAt(c, i) ==
    IF i >= c.ram_size THEN -1 ELSE IF i \in DOMAIN c.ram THEN c.ram[i] ELSE 0

ExternalRamIndex(c, addr) == (addr - EXTERNAL_RAM_START) + c.ram_bank * 8192

\* The byte an indexing expression gives, or the panic of the index.
Indexed(v) ==
    IF v = -1 THEN [result |-> "panic", value |-> 0] ELSE [result |-> "Ok", value |-> v]

OutOfBounds == [result |-> "OutOfBoundsMemoryAccess", value |-> 0]

\* The guard of the external-RAM arm of Mbc1::read and Mbc1::write.  The
\* first definition lets the access through, for comparison.
Mbc1RamOpenAlways(c) == TRUE

Mbc1RamOpen(c) == c.ram_enabled

\* Mapper::read.  Rom::read indexes the image with any address.
CartridgeRead(c, addr) ==
    IF c.kind = "ROM" THEN Indexed(RomAt(c, addr))
    ELSE IF addr <= ROM_END THEN Indexed(MapperRead(c, addr))
    ELSE IF c.kind = "MBC1"
         THEN IF Mbc1RamOpen(c)
              THEN Indexed(RamAt(c, ExternalRamIndex(c, addr)))
              ELSE OutOfBounds
    ELSE IF c.kind = "MBC3" /\ c.rtc_mapped THEN Indexed(0)
    ELSE IF c.ram_enabled THEN Indexed(RamAt(c, ExternalRamIndex(c, addr)))
    ELSE Indexed(0)

RamStore(c, i, data) ==
    [c EXCEPT !.ram = [j \in DOMAIN c.ram \cup {i} |->
                          IF j = i THEN data ELSE c.ram[j]]]

\* Mapper::write: the cartridge afterwards and the result.
CartridgeWrite(c, addr, data) ==
    IF c.kind = "ROM"
    THEN [cartridge |-> c, result |-> "WriteToReadOnlyMemory"]
    ELSE IF addr <= ROM_END
    THEN [cartridge |-> MapperWrite(c, addr, data),
          result |-> MapperWriteResult(c, addr)]
    ELSE IF c.kind = "MBC1" /\ ~Mbc1RamOpen(c)
    THEN [cartridge |-> c, result |-> "WriteToDisabledExternalRam"]
    ELSE IF ~c.ram_enabled /\ c.kind # "MBC1"
    THEN [cartridge |-> c, result |-> "Ok"]
    ELSE IF ExternalRamIndex(c, addr) >= c.ram_size
    THEN [cartridge |-> c, result |-> "panic"]
    ELSE [cartridge |-> RamStore(c, ExternalRamIndex(c, addr), data),
          result |-> "Ok"]

(***************************************************************************)
(* Mmu::read and Mmu::write of the release build (src/memory/mmu.rs); the  *)
(* cfg!(test) build short-circuits both to the flat array.  m is the Mmu:  *)
(* memory, cartridge, joypad and, in cgb, the mode and the HDMA fields.    *)
(* The sound registers 0xFF10-0xFF3F, the CGB speed register               *)
(* and the banked halves of VRAM and work RAM (0xFF4F and 0xFF70 stay 0,   *)
(* 0xD000-0xDFFF is left alone) are not accessed.  The addresses of the    *)
(* HDMA registers are imported by mmu.rs but declared nowhere under src/;  *)
(* 0xFF55 is taken from the register map of the specification.             *)
(***************************************************************************)
BOOTROM_MAPPER_REGISTER == 65360

OAM_DMA_REGISTER == 65350

JOYPAD_REGISTER == 65280

DMG_BOOTROM_SIZE == 255

CGB_BOOTROM_SIZE == 2303

VRAM_START == 32768

HDMA_LENGTH_MODE_START_REGISTER == 65365

\* The boot ROM image.
BootromByte(addr) == (addr * 5 + 49) % 256

\* The boot ROM is the image the front end loaded: 256 bytes on DMG, 2304
\* on CGB; -1 is the panic of an index past its end.
BootromAt(mode, addr) ==
    IF addr <= (IF mode = "Dmg" THEN DMG_BOOTROM_SIZE ELSE CGB_BOOTROM_SIZE)
    THEN BootromByte(addr) ELSE -1

Mmu == [memory |-> memory, cartridge |-> cartridge, joypad |-> joypad, cgb |-> cgb]

is_bootrom_mapped(m) == m.memory[BOOTROM_MAPPER_REGISTER] = 0

\* The guard of the first arm of Mmu::read and of Mmu::write.
BootromServed(m, addr) ==
    /\ addr <= ROM_END
    /\ is_bootrom_mapped(m)
    /\ \/ m.cgb.mode = "Dmg" /\ addr <= DMG_BOOTROM_SIZE
       \/ m.cgb.mode = "Cgb" /\ (addr < 256 \/ addr >= 512)

Mmu_read(m, addr) ==
    IF BootromServed(m, addr)
    THEN Indexed(BootromAt(m.cgb.mode, addr))
    ELSE IF addr = HDMA_LENGTH_MODE_START_REGISTER /\ m.cgb.mode = "Cgb"
    THEN Indexed((((m.cgb.hdma_transfer_length \div 16) + 65535) % 65536) % 256)
    ELSE IF addr <= ROM_END \/ addr \in EXTERNAL_RAM_START .. EXTERNAL_RAM_END
    THEN CartridgeRead(m.cartridge, addr)
    ELSE IF addr = JOYPAD_REGISTER
    THEN Indexed(Joypad_as_u8(m.joypad, m.memory[addr]))
    ELSE IF addr = LCD_STATUS_REGISTER
    THEN Indexed(ReadLcdStatus(m.memory))
    ELSE IF addr \in PaletteRegisters /\ m.cgb.mode = "Cgb"
    THEN Indexed(Cram_read(m.cgb.cram, addr))
    ELSE Indexed(m.memory[addr])

\* The OAM DMA source bytes that can be read before the first failing read.
DmaLength == 160

DmaFailures(m, data) ==
    {i \in 0 .. DmaLength - 1 : Mmu_read(m, data * 256 + i).result # "Ok"}

DmaCopied(m, data) ==
    IF DmaFailures(m, data) = {} THEN DmaLength
    ELSE CHOOSE i \in DmaFailures(m, data) : \A j \in DmaFailures(m, data) : i <= j

\* The Mmu after the loop of start_dma_transfer has copied n bytes, and the
\* result of the transfer.  A source page is either the OAM page itself or
\* disjoint from it, so every read sees the bytes from before the transfer.
DmaTransfer(m, data, n) ==
    [mmu |-> [m EXCEPT !.memory =
                 [a \in OAM_ADDRESS .. OAM_ADDRESS + n - 1 |->
                     Mmu_read(m, data * 256 + (a - OAM_ADDRESS)).value] @@ m.memory],
     result |-> IF n = DmaLength THEN "Ok" ELSE Mmu_read(m, data * 256 + n).result]

\* Mmu::start_dma_transfer
start_dma_transfer(m, data) ==
    CHOOSE t \in {DmaTransfer(m, data, n) : n \in {DmaCopied(m, data)}} : TRUE

\* The arms of Mmu::write other than the transfer registers: the Mmu
\* afterwards and the result.  The copy loops below write through it; they
\* never target a transfer register in this model.
Mmu_store(m, addr, data) ==
    IF BootromServed(m, addr)
    THEN [mmu |-> m, result |-> "Ok"]
    ELSE IF addr <= ROM_END \/ addr \in EXTERNAL_RAM_START .. EXTERNAL_RAM_END
    THEN [mmu |-> [m EXCEPT !.cartridge = CartridgeWrite(m.cartridge, addr, data).cartridge],
          result |-> CartridgeWrite(m.cartridge, addr, data).result]
    ELSE IF addr \in PaletteRegisters /\ m.cgb.mode = "Cgb"
    THEN [mmu |-> [m EXCEPT !.cgb.cram = Cram_write(m.cgb.cram, addr, data)],
          result |-> "Ok"]
    ELSE [mmu |-> [m EXCEPT !.memory[addr] = data], result |-> "Ok"]

\* The copy loop of Mmu::tick_hdma from byte i on: read_unchecked, then
\* write_unchecked, each a panic when the access fails.
RECURSIVE HdmaCopy(_, _, _, _, _)
HdmaCopy(m, src, dst, i, len) ==
    IF i = len THEN [mmu |-> m, result |-> "Ok"]
    ELSE IF Mmu_read(m, src + i).result # "Ok" THEN [mmu |-> m, result |-> "panic"]
    ELSE CHOOSE t \in
           {IF w.result # "Ok" THEN [mmu |-> w.mmu, result |-> "panic"]
            ELSE HdmaCopy(w.mmu, src, dst, i + 1, len) :
              w \in {Mmu_store(m, dst + i, Mmu_read(m, src + i).value)}} : TRUE

\* The end of a transfer: 0xFF is stored at the register's cell and the
\* two flags are cleared.
HdmaCompleted(m) ==
    [m EXCEPT !.memory[HDMA_LENGTH_MODE_START_REGISTER] = 255,
              !.cgb.hdma_started = FALSE,
              !.cgb.hdma_is_hblank_mode = FALSE]

\* What follows the copy loop of the HBlank arm; length is the block size.
HdmaBlockMoved(m, length) ==
    IF m.cgb.hdma_transfer_length - length = 0
    THEN HdmaCompleted([m EXCEPT !.cgb.hdma_transfer_length = 0,
                                 !.cgb.hdma_src = m.cgb.hdma_src + length,
                                 !.cgb.hdma_dst = m.cgb.hdma_dst + length])
    ELSE [m EXCEPT !.cgb.hdma_transfer_length = m.cgb.hdma_transfer_length - length,
                   !.cgb.hdma_src = m.cgb.hdma_src + length,
                   !.cgb.hdma_dst = m.cgb.hdma_dst + length]

HdmaAfterCopy(c, hblank, length) ==
    IF c.result # "Ok" THEN c
    ELSE [mmu |-> IF hblank THEN HdmaBlockMoved(c.mmu, length) ELSE HdmaCompleted(c.mmu),
          result |-> "Ok"]

\* Mmu::tick_hdma: a general-purpose transfer copies everything at once, an
\* HBlank transfer one block of at most 16 bytes while the cached PPU state
\* is HBlank.
tick_hdma(m) ==
    IF m.cgb.hdma_started /\ ~m.cgb.hdma_is_hblank_mode
    THEN HdmaAfterCopy(HdmaCopy(m, m.cgb.hdma_src, m.cgb.hdma_dst, 0,
                                m.cgb.hdma_transfer_length), FALSE, 0)
    ELSE IF m.cgb.hdma_started /\ m.cgb.hdma_is_hblank_mode
              /\ m.cgb.last_ppu_state = "HBlank"
    THEN HdmaAfterCopy(HdmaCopy(m, m.cgb.hdma_src, m.cgb.hdma_dst, 0,
                                Min(16, m.cgb.hdma_transfer_length)),
                       TRUE, Min(16, m.cgb.hdma_transfer_length))
    ELSE [mmu |-> m, result |-> "Ok"]

\* Mmu::start_hdma_transfer; the sum in the HBlank arm wraps in 16 bits.
start_hdma_transfer(m, data) ==
    tick_hdma([m EXCEPT !.cgb.hdma_transfer_length = ((data % 128) + 1) * 16,
                        !.cgb.hdma_started = TRUE,
                        !.cgb.hdma_is_hblank_mode = (data >= 128),
                        !.cgb.hdma_dst = IF data >= 128
                                         THEN (m.cgb.hdma_dst + VRAM_START) % 65536
                                         ELSE m.cgb.hdma_dst])

\* Mmu::write: the Mmu afterwards and the result.
Mmu_write(m, addr, data) ==
    IF addr = OAM_DMA_REGISTER
    THEN start_dma_transfer(m, data)
    ELSE IF addr = HDMA_LENGTH_MODE_START_REGISTER /\ m.cgb.mode = "Cgb"
    THEN IF data < 128 /\ m.cgb.hdma_is_hblank_mode
         THEN [mmu |-> [m EXCEPT !.cgb.hdma_started = FALSE], result |-> "Ok"]
         ELSE start_hdma_transfer(m, data)
    ELSE Mmu_store(m, addr, data)


(***************************************************************************)
(* Specification SpecBus: a program and a player act on the Mmu of a       *)
(* freshly built GameBoy (GameBoy::new loads a flat ROM or an MBC1         *)
(* cartridge): Mmu::write, Mmu::read and GameBoy::update_button.  The work *)
(* RAM page 0xC000 and the OAM hold bytes an earlier program wrote.  A     *)
(* panic ends the emulator.                                                *)
(***************************************************************************)
MaxBusSteps == 3

WorkRamPage == 49152 .. 49152 + DmaLength - 1

OamPage == OAM_ADDRESS .. OAM_ADDRESS + DmaLength - 1

BusAddrs ==
    MemAddrs \cup VideoAddrs \cup WorkRamPage \cup OamPage
        \cup {BOOTROM_MAPPER_REGISTER, OAM_DMA_REGISTER, JOYPAD_REGISTER}

BusMemory ==
    [a \in BusAddrs |->
        CASE a \in WorkRamPage -> a - 49152
          [] a \in OamPage -> (a * 3 + 1) % 256
          [] OTHER -> 0]

BusCartridges ==
    {NewCartridge("ROM", 2), NewCartridge("MBC1", 4), NewCartridge("MBC1", 128)}

BusWrites ==
    {<<0, 10>>, <<256, 10>>, <<256, 0>>, <<16384, 1>>, <<40960, 90>>, <<49152, 119>>,
     <<BOOTROM_MAPPER_REGISTER, 0>>, <<BOOTROM_MAPPER_REGISTER, 1>>,
     <<OAM_DMA_REGISTER, 0>>, <<OAM_DMA_REGISTER, 160>>, <<OAM_DMA_REGISTER, 192>>,
     <<OAM_DMA_REGISTER, 254>>,
     <<JOYPAD_REGISTER, 0>>, <<JOYPAD_REGISTER, 16>>, <<JOYPAD_REGISTER, 32>>,
     <<JOYPAD_REGISTER, 48>>}

BusReads == {0, 255, 256, 40960, 49152, JOYPAD_REGISTER}

BusButtons == {"a", "start", "right", "down", "b"}

InitBus ==
    /\ \E cart \in BusCartridges : CpuStartedWith(0, BusMemory, cart)
    /\ irq_revision = "enable_and_flags"

BusWrite(addr, data) ==
    /\ gameboy.running
    /\ \E w \in {Mmu_write(Mmu, addr, data)} :
         /\ memory' = IF w.result = "panic" THEN memory ELSE w.mmu.memory
         /\ cartridge' = IF w.result = "panic" THEN cartridge ELSE w.mmu.cartridge
         /\ gameboy' = [gameboy EXCEPT !.running = (w.result # "panic")]
         /\ last' = [op |-> "write", addr |-> addr, data |-> data,
                     result |-> w.result, value |-> 0, pre |-> Mmu]
    /\ steps' = steps + 1
    /\ UNCHANGED <<registers, ime, halted, cycles, div_cycles, timer,
                   irq_revision, reported, ppu, joypad, cgb, sm83>>

BusRead(addr) ==
    /\ gameboy.running
    /\ gameboy' = [gameboy EXCEPT !.running = (Mmu_read(Mmu, addr).result # "panic")]
    /\ last' = [op |-> "read", addr |-> addr, data |-> 0,
                result |-> Mmu_read(Mmu, addr).result,
                value |-> Mmu_read(Mmu, addr).value, pre |-> Mmu]
    /\ steps' = steps + 1
    /\ UNCHANGED <<registers, ime, halted, cycles, div_cycles, memory, timer,
                   irq_revision, cartridge, reported, ppu, joypad, cgb, sm83>>

\* Joypad::update_button
UpdateButton(key, pressed) ==
    /\ gameboy.running
    /\ joypad' = IF pressed THEN joypad \cup {key} ELSE joypad \ {key}
    /\ joypad' # joypad
    /\ last' = [op |-> "button", addr |-> 0, data |-> 0, result |-> "Ok",
                value |-> 0, pre |-> Mmu]
    /\ steps' = steps + 1
    /\ UNCHANGED <<registers, ime, halted, cycles, div_cycles, memory, timer,
                   irq_revision, cartridge, reported, ppu, gameboy, cgb, sm83>>

NextBus ==
    /\ steps < MaxBusSteps
    /\ \/ \E w \in BusWrites : BusWrite(w[1], w[2])
       \/ \E addr \in BusReads : BusRead(addr)
       \/ \E key \in BusButtons, pressed \in BOOLEAN : UpdateButton(key, pressed)

SpecBus == InitBus /\ [][NextBus]_vars

\* C13: a write of d to 0xFF46 copies the 160 bytes read at (d<<8)+i to
\* 0xFE00+i, all within the write, and changes nothing outside the OAM.
C13_DmaCopiesPageToOam ==
    (last.op = "write" /\ last.addr = OAM_DMA_REGISTER) =>
        /\ gameboy.running
        /\ \A i \in 0 .. DmaLength - 1 :
              /\ Mmu_read(last.pre, last.data * 256 + i).result = "Ok"
              /\ memory[OAM_ADDRESS + i] = Mmu_read(last.pre, last.data * 256 + i).value
        /\ \A a \in BusAddrs \ OamPage : memory[a] = last.pre.memory[a]
        /\ cartridge = last.pre.cartridge


\* Button n of a row is held and the row is selected (its select bit of s is
\* 0): bit 5 selects the buttons, bit 4 the d-pad.
HeldInSelectedRow(joy, s, n) ==
    \/ Bit(s, 5) = 0 /\ ButtonRowBit(n)[1] \in joy
    \/ Bit(s, 4) = 0 /\ ButtonRowBit(n)[2] \in joy

\* C16: a read of 0xFF00 returns bits 4-5 as last written, and low-nibble
\* bit n is 0 exactly when a button mapped to bit n in a selected row is held
\* (either row when both are selected).
C16_JoypadReadBack ==
    (last.op = "read" /\ last.addr = JOYPAD_REGISTER) =>
        /\ BitAnd(last.value, 48) = BitAnd(last.pre.memory[JOYPAD_REGISTER], 48)
        /\ \A n \in 0 .. 3 :
              Bit(last.value, n) = 0 <=>
                  HeldInSelectedRow(last.pre.joypad,
                                    last.pre.memory[JOYPAD_REGISTER], n)

\* C17: a write of any value to 0xFF50 leaves the boot ROM unmapped, and once
\* it is unmapped no later operation maps it again.
C17_BootromUnmapLatched ==
    /\ (last.op = "write" /\ last.addr = BOOTROM_MAPPER_REGISTER /\ gameboy.running)
          => ~is_bootrom_mapped(Mmu)
    /\ (last.op \in {"write", "read", "button"} /\ ~is_bootrom_mapped(last.pre))
          => ~is_bootrom_mapped(Mmu)


(***************************************************************************)
(* Specification SpecJump: the CPU stepping through jumps, calls and       *)
(* returns, the way the harness of src/tests.rs runs single instructions:  *)
(* the flags, PC and SP are placed before the first step, and IE is 0, so  *)
(* no interrupt is dispatched.                                             *)
(***************************************************************************)
MaxJumpSteps == 2

JumpFlags == {0, 128, 16}

JumpPcs == {256, 65533}

JumpSps == {65520, 65532}

\* The operand bytes that follow the opcode: an address, or an offset.
JumpOperands(op) ==
    IF op \in JrOps THEN {5, 251} ELSE IF op \in RetOps THEN {0} ELSE {8192, 4660}

InitJump ==
    /\ \E f \in JumpFlags, pc \in JumpPcs, sp \in JumpSps :
          /\ registers = [a |-> 0, f |-> f, sp |-> sp, pc |-> pc]
          /\ ime = [enabled |-> FALSE, enable_pending |-> FALSE]
          /\ halted = FALSE
          /\ cycles = 0 /\ div_cycles = 0
          /\ memory = InitMemory(0, 0)
          /\ timer = NoTimer /\ cartridge = NoCartridge
          /\ steps = 0 /\ reported = 0
          /\ ppu = NoPpu /\ gameboy = NoGameBoy /\ joypad = NoJoypad /\ cgb = NoCgb
          /\ sm83 = NewSm83
          /\ last = NoLast
    /\ irq_revision = "enable_and_flags"

NextJump ==
    /\ steps < MaxJumpSteps
    /\ \/ \E op \in JpOps, imm \in JumpOperands("JP") : Tick(op, imm)
       \/ \E op \in JrOps, imm \in JumpOperands("JR") : Tick(op, imm)
       \/ \E op \in CallOps, imm \in JumpOperands("CALL") : Tick(op, imm)
       \/ \E op \in RetOps, imm \in JumpOperands("RET") : Tick(op, imm)

SpecJump == InitJump /\ [][NextJump]_vars

\* The condition of op holds in the flag byte f.
ConditionHeld(op, f) ==
    CASE OpCondition(op) = "Z" -> BitAnd(f, FLAG_ZERO) # 0
      [] OpCondition(op) = "NZ" -> BitAnd(f, FLAG_ZERO) = 0
      [] OpCondition(op) = "C" -> BitAnd(f, FLAG_CARRY) # 0
      [] OpCondition(op) = "NC" -> BitAnd(f, FLAG_CARRY) = 0
      [] OpCondition(op) = "None" -> TRUE

ConditionalOps == (JpOps \cup JrOps \cup CallOps \cup RetOps) \ {"JP", "JR", "CALL", "RET"}

\* Where a taken op leaves PC, given the step's history.
TakenTarget(h) ==
    CASE h.op \in JpOps \cup CallOps -> h.imm
      [] h.op \in JrOps ->
            (h.pre_pc + 2 + (IF h.imm >= 128 THEN h.imm - 256 ELSE h.imm) + 65536) % 65536
      [] h.op \in RetOps -> Word(h.pre_memory[h.pre_sp], h.pre_memory[h.pre_sp + 1])

\* C14: a conditional JP, JR, CALL or RET reports 16, 12, 24 or 20 cycles and
\* transfers control when its condition holds, and reports 12, 8, 12 or 8
\* cycles and leaves PC just past the instruction, SP and memory unchanged,
\* when it does not hold.
C14_ConditionalJumpCycles ==
    (last.op \in ConditionalOps /\ ~last.dispatched) =>
        IF ConditionHeld(last.op, last.pre_f)
        THEN /\ last.ret = (CASE last.op \in JpOps -> 16 [] last.op \in JrOps -> 12
                              [] last.op \in CallOps -> 24 [] last.op \in RetOps -> 20)
             /\ registers.pc = TakenTarget(last)
        ELSE /\ last.ret = (CASE last.op \in JpOps -> 12 [] last.op \in JrOps -> 8
                              [] last.op \in CallOps -> 12 [] last.op \in RetOps -> 8)
             /\ registers.pc = (last.pre_pc + InstructionLength(last.op)) % 65536
             /\ registers.sp = last.pre_sp
             /\ \A a \in StackAddrs : memory[a] = last.pre_memory[a]

MaxCartSteps == 3

CartWriteAddrs == {0, 8192, 16384, 24576, EXTERNAL_RAM_START, EXTERNAL_RAM_END}

CartReadAddrs == {16384, 32767, EXTERNAL_RAM_START, EXTERNAL_RAM_END}

CartData == {0, 2, 10, 26, 35}

ExternalRam == EXTERNAL_RAM_START .. EXTERNAL_RAM_END

InitCartridge ==
    /\ \E cart \in Cartridges \ {NewCartridge("ROM", 2)} :
          CpuStartedWith(0, InitMemory(0, 0), cart)
    /\ irq_revision = "enable_and_flags"

CartAccess(op, addr, data, result, value, enable) ==
    /\ steps' = steps + 1
    /\ last' = [op |-> op, addr |-> addr, data |-> data, result |-> result,
                value |-> value, pre |-> cartridge, enable |-> enable]
    /\ gameboy' = [gameboy EXCEPT !.running = (result # "panic")]
    /\ UNCHANGED <<registers, ime, halted, cycles, div_cycles, memory, timer,
                   irq_revision, reported, ppu, joypad, cgb, sm83>>

PriorEnable == IF last.op = "init" THEN -1 ELSE last.enable

\* Mapper::write(addr, data)
CartWrite(addr, data) ==
    \E w \in {CartridgeWrite(cartridge, addr, data)} :
        /\ cartridge' = w.cartridge
        /\ CartAccess("write", addr, data, w.result, 0,
                      IF addr <= 8191 THEN data ELSE PriorEnable)

\* Mapper::read(addr)
CartRead(addr) ==
    \E r \in {CartridgeRead(cartridge, addr)} :
        /\ cartridge' = cartridge
        /\ CartAccess("read", addr, 0, r.result, r.value, PriorEnable)

NextCartridge ==
    /\ steps < MaxCartSteps
    /\ gameboy.running
    /\ \/ \E addr \in CartWriteAddrs, data \in CartData : CartWrite(addr, data)
       \/ \E addr \in CartReadAddrs : CartRead(addr)

SpecCartridge == InitCartridge /\ [][NextCartridge]_vars

\* C19: the external RAM of an MBC1 is enabled exactly when the last byte
\* written to 0x0000-0x1FFF had low nibble 0x0A; while it is disabled a read
\* of 0xA000-0xBFFF fails out-of-bounds, a write there fails as a write to
\* disabled external RAM, and the failed access leaves the RAM contents and
\* the bank latches as they were.
C19_Mbc1RamEnableGate ==
    cartridge.kind = "MBC1" =>
        /\ cartridge.ram_enabled <=> (last.op # "init" /\ last.enable % 16 = 10)
        /\ (last.op = "read" /\ last.addr \in ExternalRam /\ ~last.pre.ram_enabled)
              => (last.result = "OutOfBoundsMemoryAccess" /\ cartridge = last.pre)
        /\ (last.op = "write" /\ last.addr \in ExternalRam /\ ~last.pre.ram_enabled)
              => (last.result = "WriteToDisabledExternalRam" /\ cartridge = last.pre)

C19_Witness ==
    /\ cartridge.kind = "MBC1"
    /\ last.op = "write" /\ last.addr = EXTERNAL_RAM_START
    /\ last.enable = 0 /\ ~cartridge.ram_enabled
    /\ last.result = "WriteToDisabledExternalRam"
    /\ steps = 3

\* C20: for MBC1, MBC3 and MBC5, after any bank-select sequence a read of
\* 0x4000-0x7FFF gives a byte of the image or fails out-of-bounds, an access
\* to enabled external RAM stays inside the RAM array or fails
\* out-of-bounds, and no access indexes past the end of the image.
C20_BankedAccessStaysInBounds ==
    last.op \in {"read", "write"} => last.result # "panic"


(***************************************************************************)
(* Specification SpecRun: the CPU step of GameBoy::run_frame over the Mmu  *)
(* of the release build: Cpu::tick with every access going through         *)
(* Mmu::read and Mmu::write, and the match of run_frame on what the call   *)
(* returns.  b is the CPU and the Mmu inside one call: result is the first *)
(* error an access or the decoder gave ("Ok" while there is none), path    *)
(* the part of the step where it arose, unwound whether it was returned    *)
(* through ? (FALSE) or hit an unwrap (TRUE).                              *)
(***************************************************************************)
RecoveredKinds ==
    {"WriteToReadOnlyMemory", "OutOfBoundsMemoryAccess", "WriteToDisabledExternalRam"}

RunOps == {"NOP", "LD_A16_A", "LD_A_A16", "ILLEGAL", "CALL"}

FetchLength(op) == IF op \in {"LD_A16_A", "LD_A_A16", "CALL"} THEN 3 ELSE 1

FetchCycles(op) ==
    IF op \in {"LD_A16_A", "LD_A_A16"} THEN 16 ELSE IF op = "CALL" THEN 24 ELSE 4

Failed(b, result, path, unwound) ==
    [b EXCEPT !.result = result, !.path = path, !.unwound = unwound]

\* Mmu::write16: the low byte, then the high byte unless the first write failed
Mmu_write16(m, addr, data) ==
    IF Mmu_write(m, addr, Lo(data)).result # "Ok"
    THEN Mmu_write(m, addr, Lo(data))
    ELSE Mmu_write(Mmu_write(m, addr, Lo(data)).mmu, (addr + 1) % 65536, Hi(data))

\* The dispatch of Cpu::handle_interrupts once push_stack has moved SP; w
\* is what the write16 of the return address gave.
Bus_service(b, w) ==
    IF w.result # "Ok"
    THEN Failed(b, w.result, "dispatch", FALSE)
    ELSE [b EXCEPT !.registers.pc =
                      Vector_to_address(InterruptFlags_to_vector(
                          IrqFromBitsTruncate(b.mmu.memory[INTERRUPT_FLAGS_REGISTER]))),
                   !.mmu = [w.mmu EXCEPT !.memory[INTERRUPT_FLAGS_REGISTER] =
                              BitAnd(IrqFromBitsTruncate(b.mmu.memory[INTERRUPT_FLAGS_REGISTER]),
                                     BitNot(InterruptFlags_to_vector(
                                         IrqFromBitsTruncate(
                                             b.mmu.memory[INTERRUPT_FLAGS_REGISTER]))))],
                   !.ime.enabled = FALSE,
                   !.cycles = b.cycles + 20]

\* Cpu::handle_interrupts over the Mmu
Bus_handle_interrupts(b) ==
    IF BitAnd(IrqFromBitsTruncate(b.mmu.memory[INTERRUPT_ENABLE_REGISTER]),
              IrqFromBitsTruncate(b.mmu.memory[INTERRUPT_FLAGS_REGISTER])) = 0
    THEN [b EXCEPT !.ime = CommitPending(b.ime)]
    ELSE IF ~CommitPending(b.ime).enabled
    THEN [b EXCEPT !.ime = CommitPending(b.ime), !.cycles = b.cycles + 20]
    ELSE Bus_service([b EXCEPT !.ime = CommitPending(b.ime),
                               !.registers.sp = b.registers.sp - 2],
                     Mmu_write16(b.mmu, b.registers.sp - 2, b.registers.pc))

\* The reads of the instruction's bytes that do not give a byte.
FetchFailures(b, op) ==
    {i \in 0 .. FetchLength(op) - 1 : Mmu_read(b.mmu, b.registers.pc + i).result # "Ok"}

FirstFetchFailure(b, op) ==
    Mmu_read(b.mmu, b.registers.pc +
                 (CHOOSE i \in FetchFailures(b, op) :
                      \A j \in FetchFailures(b, op) : i <= j)).result

\* The CALL arm of Handlers::jump over the Mmu; w is what the write16 of
\* push_stack gave.  push_stack moves SP before it writes, and the error of
\* the write is returned before PC is loaded.
Bus_call(b, imm, w) ==
    IF w.result # "Ok"
    THEN Failed([b EXCEPT !.mmu = w.mmu, !.registers.sp = b.registers.sp - 2],
                w.result, "execute", FALSE)
    ELSE [b EXCEPT !.mmu = w.mmu, !.registers.sp = b.registers.sp - 2,
                   !.registers.pc = imm]

\* The handlers over the Mmu; PC is already past the instruction, w is what
\* the handler's write gave and r what its read gave.
Bus_load(b, op, imm, w, r) ==
    CASE op = "CALL" -> Bus_call(b, imm, w)
      [] op = "LD_A16_A" ->
            IF w.result # "Ok" THEN Failed([b EXCEPT !.mmu = w.mmu], w.result, "execute", FALSE)
            ELSE [b EXCEPT !.mmu = w.mmu]
      [] op = "LD_A_A16" ->
            IF r.result # "Ok" THEN Failed(b, r.result, "execute", FALSE)
            ELSE [b EXCEPT !.registers.a = r.value]
      [] OTHER -> b

\* Sm83::decode and the instruction bytes of Cpu::tick (the bytes are taken
\* through the reader that unwraps), the advance of PC, the handler and the
\* cycle accounting.  Fewer than 256 cycles accumulate within the steps of
\* this specification, so tick_div leaves DIV alone.
Bus_after_interrupts(b, op, imm) ==
    IF b.result # "Ok" THEN b
    ELSE IF FetchFailures(b, op) # {}
    THEN Failed(b, FirstFetchFailure(b, op), "fetch", TRUE)
    ELSE IF op = "ILLEGAL" THEN Failed(b, "IllegalOpcode", "decode", FALSE)
    ELSE CHOOSE t \in
           {Bus_load([b EXCEPT !.registers.pc = (b.registers.pc + FetchLength(op)) % 65536],
                     op, imm, w, Mmu_read(b.mmu, imm)) :
              w \in {IF op = "LD_A16_A" THEN Mmu_write(b.mmu, imm, b.registers.a)
                     ELSE IF op = "CALL"
                     THEN Mmu_write16(b.mmu, b.registers.sp - 2,
                                      (b.registers.pc + FetchLength(op)) % 65536)
                     ELSE [mmu |-> b.mmu, result |-> "Ok"]}} : TRUE

Accounted(t, op) ==
    IF t.result # "Ok" THEN t
    ELSE [t EXCEPT !.cycles = t.cycles + FetchCycles(op),
                   !.div_cycles = t.div_cycles + FetchCycles(op)]

\* Cpu::tick over the Mmu
Bus_tick(b, op, imm) == Accounted(Bus_after_interrupts(Bus_handle_interrupts(b), op, imm), op)

\* The match of run_frame: the three kinds returned by the call are logged
\* and count 0 cycles; any other error, and any unwrap or index panic, ends
\* the emulator.
Terminates(t) ==
    \/ t.unwound
    \/ t.result = "panic"
    \/ t.result \notin RecoveredKinds \cup {"Ok"}

MaxRunSteps == 3

RunPcs == {256, 49152, EXTERNAL_RAM_START}

RunSps == {65530, 16386, EXTERNAL_RAM_START + 2}

RunAccumulators == {10, 160}

RunOperands == {4096, EXTERNAL_RAM_START, 49152, OAM_DMA_REGISTER}

\* The top of video RAM, below the external RAM window: a stack that starts
\* in the window grows into it.
VideoRamTop == EXTERNAL_RAM_START - 2 * (MaxRunSteps + 1) .. EXTERNAL_RAM_START - 1

RunMemory(irq) ==
    [a \in BusAddrs \cup VideoRamTop |->
        CASE a \in {INTERRUPT_ENABLE_REGISTER, INTERRUPT_FLAGS_REGISTER} -> irq
          [] a \in VideoRamTop -> 0
          [] OTHER -> BusMemory[a]]

InitRun ==
    /\ \E cart \in BusCartridges, pc \in RunPcs, sp \in RunSps,
          a \in RunAccumulators, irq \in {0, 1}, on \in BOOLEAN :
          /\ registers = [a |-> a, f |-> 0, sp |-> sp, pc |-> pc]
          /\ ime = [enabled |-> on, enable_pending |-> FALSE]
          /\ memory = RunMemory(irq)
          /\ cartridge = cart
    /\ halted = FALSE
    /\ cycles = 0 /\ div_cycles = 0
    /\ timer = NoTimer
    /\ steps = 0 /\ reported = 0
    /\ ppu = NoPpu /\ gameboy = NoGameBoy /\ joypad = NoJoypad /\ cgb = NoCgb
    /\ sm83 = NewSm83
    /\ last = NoLast
    /\ irq_revision = "flags_only"

\* One CPU step of run_frame: lines 74-106.
RunCpuStep(op, imm) ==
    /\ gameboy.running
    /\ \E t \in {Bus_tick([registers |-> registers, ime |-> ime, mmu |-> Mmu,
                           cycles |-> cycles, div_cycles |-> div_cycles,
                           result |-> "Ok", path |-> "none", unwound |-> FALSE],
                          op, imm)} :
         /\ registers' = t.registers
         /\ ime' = t.ime
         /\ memory' = t.mmu.memory
         /\ cartridge' = t.mmu.cartridge
         /\ cycles' = t.cycles
         /\ div_cycles' = t.div_cycles
         /\ gameboy' = [gameboy EXCEPT
                          !.running = ~Terminates(t),
                          !.master_clock_penalty =
                              IF t.result = "Ok" /\ t.cycles - cycles > 4
                              THEN (t.cycles - cycles) \div 4 ELSE @]
         /\ reported' = reported + (IF t.result = "Ok" THEN t.cycles - cycles ELSE 0)
         /\ last' = [op |-> op, imm |-> imm, failure |-> t.result, path |-> t.path,
                     pre_pc |-> registers.pc, pre_sp |-> registers.sp,
                     pre_if |-> memory[INTERRUPT_FLAGS_REGISTER],
                     ret |-> IF t.result = "Ok" THEN FetchCycles(op) ELSE 0]
    /\ steps' = steps + 1
    /\ UNCHANGED <<halted, timer, irq_revision, ppu, joypad, cgb, sm83>>

NextRun ==
    /\ steps < MaxRunSteps
    /\ \/ RunCpuStep("NOP", 0)
       \/ RunCpuStep("ILLEGAL", 0)
       \/ \E imm \in RunOperands : RunCpuStep("LD_A16_A", imm)
       \/ \E imm \in RunOperands : RunCpuStep("LD_A_A16", imm)
       \/ \E imm \in RunOperands \ {OAM_DMA_REGISTER} : RunCpuStep("CALL", imm)

SpecRun == InitRun /\ [][NextRun]_vars

\* C18: a memory access that fails with write-to-read-only-memory,
\* write-to-disabled-external-RAM or out-of-bounds-memory-access never ends
\* the emulator, whether it arises in the execution of an instruction, in
\* its fetch, in the interrupt dispatch or in a DMA transfer; every other
\* error kind ends it.
C18_RecoveredErrorsNeverTerminate ==
    last.op \in RunOps =>
        /\ last.failure \in RecoveredKinds => gameboy.running
        /\ last.failure \notin RecoveredKinds \cup {"Ok", "panic"} => ~gameboy.running

\* The parts of C18 the code keeps: the three kinds do not end the emulator
\* when they arise in the execution of an instruction (a DMA transfer
\* included) or in the interrupt dispatch, and a decoder error ends it.
C18_RecoveredOutsideFetch ==
    last.op \in RunOps =>
        /\ (last.failure \in RecoveredKinds /\ last.path # "fetch") => gameboy.running
        /\ last.failure \notin RecoveredKinds \cup {"Ok", "panic"} => ~gameboy.running


\* C24: when a write made by an instruction or by the interrupt dispatch is
\* rejected as a write to read-only memory, only the write is dropped: the
\* emulator goes on, the dispatch still clears the serviced bit of IF, CALL
\* still loads PC with its target, and the cycles of the step are reported.
C24_RejectedWriteOnlyDropsWrite ==
    (last.op \in RunOps /\ last.failure = "WriteToReadOnlyMemory")
      => /\ gameboy.running
         /\ last.path = "dispatch"
               => memory[INTERRUPT_FLAGS_REGISTER] =
                      BitAnd(last.pre_if, BitNot(InterruptFlags_to_vector(
                                                     IrqFromBitsTruncate(last.pre_if))))
         /\ (last.path = "execute" /\ last.op = "CALL") => registers.pc = last.imm
         /\ last.ret = FetchCycles(last.op)

\* What the code keeps of C24: the emulator goes on.
C24_RejectedWriteGoesOn ==
    (last.op \in RunOps /\ last.failure = "WriteToReadOnlyMemory") => gameboy.running


(***************************************************************************)
(* Properties of the MBC1 bank registers, checked under SpecCartridge.     *)
(***************************************************************************)
Mbc1Wrote(lo, hi) ==
    /\ last.op = "write" /\ last.pre.kind = "MBC1"
    /\ last.addr \in lo .. hi

\* C25: for MBC1, a write of v to 0x4000-0x5FFF in banking mode 0 sets bits
\* 5-6 of the ROM bank to v & 3 and leaves the RAM bank unchanged, and in
\* banking mode 1 sets the RAM bank to v & 3 and leaves the ROM bank
\* unchanged.
C25_Mbc1SecondaryRegister ==
    Mbc1Wrote(16384, 24575) =>
        IF ~last.pre.banking_mode
        THEN /\ (cartridge.rom_bank \div 32) % 4 = last.data % 4
             /\ cartridge.ram_bank = last.pre.ram_bank
        ELSE /\ cartridge.ram_bank = last.data % 4
             /\ cartridge.rom_bank = last.pre.rom_bank

\* What Mbc1::write does with the register: over an image larger than
\* 512 KiB, mode 0 sets the RAM bank and mode 1 sets bits 5-6 of the ROM
\* bank; over a smaller image the write changes nothing.
C25_Mbc1SecondaryRegisterAsCoded ==
    Mbc1Wrote(16384, 24575) =>
        IF ~last.pre.secondary_banking_allowed
        THEN cartridge = last.pre
        ELSE IF ~last.pre.banking_mode
        THEN /\ cartridge.ram_bank = last.data % 4
             /\ cartridge.rom_bank = last.pre.rom_bank
        ELSE /\ (cartridge.rom_bank \div 32) % 4 = last.data % 4
             /\ cartridge.rom_bank % 32 = last.pre.rom_bank % 32
             /\ cartridge.ram_bank = last.pre.ram_bank

\* C26: for MBC1, a write of v to 0x2000-0x3FFF sets the low five bits of
\* the ROM bank to v & 0x1F, promoted to 1 when that is 0, and leaves bits
\* 5-6 of the ROM bank unchanged; the low five bits of the ROM bank are
\* never 0.
C26_Mbc1RomBankRegister ==
    /\ Mbc1Wrote(8192, 16383) =>
          /\ cartridge.rom_bank % 32 = (IF last.data % 32 = 0 THEN 1 ELSE last.data % 32)
          /\ cartridge.rom_bank \div 32 = last.pre.rom_bank \div 32
    /\ cartridge.kind = "MBC1" => cartridge.rom_bank % 32 # 0


(***************************************************************************)
(* The Mmu in either mode: Mmu::read, Mmu::write, Mmu::tick_hdma and       *)
(* Mmu::cache_ppu_state called on a console whose HDMA source and          *)
(* destination registers the program has already written.  tick_hdma and  *)
(* cache_ppu_state are the Mmu's public interface; nothing under src/      *)
(* calls them, so the order of the calls is left open.                     *)
(***************************************************************************)
MaxCgbSteps == 4

Modes == {"Dmg", "Cgb"}

PpuStates == {"HBlank", "VBlank", "OamScan", "Drawing"}

EchoOffsets == {0, 1}

\* Every video RAM cell a transfer can reach within MaxCgbSteps calls.
VideoRamWindow == VRAM_START .. VRAM_START + 16 * MaxCgbSteps - 1

CgbAddrs ==
    BusAddrs \cup VideoRamWindow \cup {57344 + k : k \in EchoOffsets}
        \cup {HDMA_LENGTH_MODE_START_REGISTER}

\* Work RAM and its echo cells start out holding the same bytes.
CgbMemory ==
    [a \in CgbAddrs |->
        CASE a \in WorkRamPage -> a - 49152
          [] a \in {57344 + k : k \in EchoOffsets} -> a - 57344
          [] OTHER -> 0]

CgbCartridges == {NewCartridge("ROM", 2), NewCartridge("MBC1", 4)}

HdmaSources == {49152}

HdmaDestinations == {0, VRAM_START}

CgbWrites ==
    {<<0, 10>>, <<256, 10>>, <<512, 10>>, <<2304, 10>>, <<8192, 3>>,
     <<BOOTROM_MAPPER_REGISTER, 1>>,
     <<HDMA_LENGTH_MODE_START_REGISTER, 0>>, <<HDMA_LENGTH_MODE_START_REGISTER, 1>>,
     <<HDMA_LENGTH_MODE_START_REGISTER, 128>>, <<HDMA_LENGTH_MODE_START_REGISTER, 129>>,
     <<49153, 119>>, <<57345, 85>>}

CgbReads ==
    {0, 255, 256, 512, 2303, 2304, 16384, HDMA_LENGTH_MODE_START_REGISTER,
     49153, 57345}

InitCgb ==
    /\ registers = [a |-> 0, f |-> 0, sp |-> InitSp, pc |-> InitPc]
    /\ ime = [enabled |-> FALSE, enable_pending |-> FALSE]
    /\ halted = FALSE
    /\ cycles = 0
    /\ div_cycles = 0
    /\ memory = CgbMemory
    /\ timer = NoTimer
    /\ cartridge \in CgbCartridges
    /\ steps = 0
    /\ reported = 0
    /\ ppu = NoPpu
    /\ gameboy = NoGameBoy
    /\ joypad = NoJoypad
    /\ sm83 = NewSm83
    /\ \E mode \in Modes, src \in HdmaSources, dst \in HdmaDestinations :
         cgb = [NewCgb(mode) EXCEPT !.hdma_src = src, !.hdma_dst = dst]
    /\ last = [op |-> "init", addr |-> 0, data |-> 0, result |-> "Ok",
               value |-> 0, pre |-> Mmu]
    /\ irq_revision = "enable_and_flags"

\* The Mmu after a call that returned w; a panic ends the run.
CgbDone(op, addr, data, w) ==
    /\ memory' = IF w.result = "panic" THEN memory ELSE w.mmu.memory
    /\ cartridge' = IF w.result = "panic" THEN cartridge ELSE w.mmu.cartridge
    /\ cgb' = IF w.result = "panic" THEN cgb ELSE w.mmu.cgb
    /\ gameboy' = [gameboy EXCEPT !.running = (w.result # "panic")]
    /\ last' = [op |-> op, addr |-> addr, data |-> data,
                result |-> w.result, value |-> 0, pre |-> Mmu]
    /\ steps' = steps + 1
    /\ UNCHANGED <<registers, ime, halted, cycles, div_cycles, timer,
                   irq_revision, reported, ppu, joypad, sm83>>

CgbWrite(addr, data) ==
    /\ gameboy.running
    /\ \E w \in {Mmu_write(Mmu, addr, data)} : CgbDone("write", addr, data, w)

CgbRead(addr) ==
    /\ gameboy.running
    /\ gameboy' = [gameboy EXCEPT !.running = (Mmu_read(Mmu, addr).result # "panic")]
    /\ last' = [op |-> "read", addr |-> addr, data |-> 0,
                result |-> Mmu_read(Mmu, addr).result,
                value |-> Mmu_read(Mmu, addr).value, pre |-> Mmu]
    /\ steps' = steps + 1
    /\ UNCHANGED <<registers, ime, halted, cycles, div_cycles, memory, timer,
                   irq_revision, cartridge, reported, ppu, joypad, cgb, sm83>>

\* Mmu::tick_hdma, called from outside.
TickHdma ==
    /\ gameboy.running
    /\ \E w \in {tick_hdma(Mmu)} : CgbDone("tick_hdma", 0, 0, w)

\* Mmu::cache_ppu_state
CachePpuState(state) ==
    /\ gameboy.running
    /\ cgb.last_ppu_state # state
    /\ cgb' = [cgb EXCEPT !.last_ppu_state = state]
    /\ last' = [op |-> "cache_ppu_state", addr |-> 0, data |-> 0,
                result |-> "Ok", value |-> 0, pre |-> Mmu]
    /\ steps' = steps + 1
    /\ UNCHANGED <<registers, ime, halted, cycles, div_cycles, memory, timer,
                   irq_revision, cartridge, reported, ppu, gameboy, joypad, sm83>>

NextCgb ==
    /\ steps < MaxCgbSteps
    /\ \/ \E w \in CgbWrites : CgbWrite(w[1], w[2])
       \/ \E addr \in CgbReads : CgbRead(addr)
       \/ TickHdma
       \/ \E state \in PpuStates : CachePpuState(state)

SpecCgb == InitCgb /\ [][NextCgb]_vars


\* The boot ROM window as documented: 0x0000-0x00FF, and on CGB also
\* 0x0200-0x08FF.
BootromWindow(mode, addr) ==
    \/ addr <= DMG_BOOTROM_SIZE
    \/ mode = "Cgb" /\ addr \in 512 .. CGB_BOOTROM_SIZE

\* C27: while the boot ROM is mapped, a read of 0x0000-0x7FFF is served from
\* the boot ROM exactly inside the documented window (0x0000-0x00FF, on CGB
\* also 0x0200-0x08FF) and from the cartridge mapper everywhere else, and a
\* write inside the window changes neither memory nor the mapper.
C27_BootromWindow ==
    /\ (last.op = "read" /\ last.addr <= ROM_END /\ is_bootrom_mapped(last.pre))
          => IF BootromWindow(last.pre.cgb.mode, last.addr)
             THEN last.result = "Ok" /\ last.value = BootromByte(last.addr)
             ELSE /\ last.result = CartridgeRead(last.pre.cartridge, last.addr).result
                  /\ last.value = CartridgeRead(last.pre.cartridge, last.addr).value
    /\ (last.op = "write" /\ is_bootrom_mapped(last.pre)
          /\ BootromWindow(last.pre.cgb.mode, last.addr))
          => last.result = "Ok" /\ Mmu = last.pre

\* C27, the part the code keeps: the same with the window the guard of
\* Mmu::read tests, which on CGB runs from 0x0200 to the end of the ROM area
\* and so indexes the boot ROM image past its last byte.
C27_BootromWindowAsCoded ==
    /\ (last.op = "read" /\ last.addr <= ROM_END /\ is_bootrom_mapped(last.pre))
          => IF BootromServed(last.pre, last.addr)
             THEN IF last.addr <= CGB_BOOTROM_SIZE
                  THEN last.result = "Ok" /\ last.value = BootromByte(last.addr)
                  ELSE last.result = "panic"
             ELSE /\ last.result = CartridgeRead(last.pre.cartridge, last.addr).result
                  /\ last.value = CartridgeRead(last.pre.cartridge, last.addr).value
    /\ (last.op = "write" /\ BootromServed(last.pre, last.addr))
          => last.result = "Ok" /\ Mmu = last.pre
    /\ (last.pre.cgb.mode = "Dmg" /\ last.addr <= ROM_END /\ is_bootrom_mapped(last.pre))
          => (BootromServed(last.pre, last.addr)
                <=> BootromWindow("Dmg", last.addr))


\* The address the echo area pairs with addr: 0xC000+k with 0xE000+k.
EchoOf(addr) == IF addr >= 57344 THEN addr - 8192 ELSE addr + 8192

EchoPairs == {49152 + k : k \in EchoOffsets} \cup {57344 + k : k \in EchoOffsets}

\* C28: a read of 0xC000+k or of 0xE000+k returns the byte the other
\* address of the pair reads, so that a byte written through either one is
\* read back through both.
C28_EchoRamMirrors ==
    (last.op = "read" /\ last.addr \in EchoPairs)
        => last.value = Mmu_read(last.pre, EchoOf(last.addr)).value

\* C28, the part the code keeps: a write to either address of a pair
\* stores the byte in the cell of that address alone.
C28_EchoRamIsPlainMemory ==
    (last.op = "write" /\ last.addr \in EchoPairs)
        => /\ memory[last.addr] = last.data
           /\ memory[EchoOf(last.addr)] = last.pre.memory[EchoOf(last.addr)]


\* A write to the HDMA length/mode/start register on CGB that returned.
HdmaWrote ==
    /\ last.op = "write" /\ last.addr = HDMA_LENGTH_MODE_START_REGISTER
    /\ last.pre.cgb.mode = "Cgb" /\ last.result = "Ok"

\* The Mmu of a cancelled HBlank transfer: only the cancelling write leaves
\* the transfer stopped with its HBlank flag still set.
HdmaCancelled(m) == ~m.hdma_started /\ m.hdma_is_hblank_mode

\* Every byte of a transfer of the given length is in video RAM at dst.
HdmaCopied(src, dst, length) ==
    \A k \in 0 .. length - 1 :
        (dst + k) \in VideoRamWindow
            => memory[dst + k] = last.pre.memory[src + k]

\* The cancelling write stops the transfer and copies nothing, and no later
\* tick_hdma copies anything while the transfer is stopped.
C29_CancelStops ==
    /\ (HdmaWrote /\ last.data < 128
          /\ last.pre.cgb.hdma_started /\ last.pre.cgb.hdma_is_hblank_mode)
          => /\ ~cgb.hdma_started
             /\ memory = last.pre.memory /\ cartridge = last.pre.cartridge
    /\ (last.op = "tick_hdma" /\ ~last.pre.cgb.hdma_started)
          => Mmu = last.pre

\* After a cancellation a write with bit 7 set starts an HBlank transfer:
\* it is in progress, or its only block went out at once in HBlank.
C29_RestartHblank ==
    (HdmaWrote /\ HdmaCancelled(last.pre.cgb) /\ last.data >= 128)
        => \/ cgb.hdma_started /\ cgb.hdma_is_hblank_mode
           \/ /\ last.pre.cgb.last_ppu_state = "HBlank" /\ last.data = 128
              /\ ~cgb.hdma_started /\ cgb.hdma_transfer_length = 0

\* After a cancellation a write with bit 7 clear runs a general-purpose
\* transfer: all (n+1)*16 bytes are copied and the transfer is over.
C29_RestartGeneral ==
    (HdmaWrote /\ HdmaCancelled(last.pre.cgb) /\ last.data < 128)
        => /\ ~cgb.hdma_started /\ ~cgb.hdma_is_hblank_mode
           /\ HdmaCopied(last.pre.cgb.hdma_src, last.pre.cgb.hdma_dst,
                         (last.data + 1) * 16)

\* C29: on CGB a write to 0xFF55 with bit 7 clear during an HBlank transfer
\* cancels it, so that no later HBlank copies a byte; after the cancellation
\* a write with bit 7 clear runs a general-purpose transfer of all the bytes
\* and a write with bit 7 set starts a new HBlank transfer.
C29_HdmaCancelThenRestart ==
    C29_CancelStops /\ C29_RestartHblank /\ C29_RestartGeneral

\* C29, the part the code keeps: the cancellation and the HBlank restart;
\* a write with bit 7 clear after a cancellation changes nothing, because
\* the HBlank flag the cancellation left set sends it to the cancelling
\* branch again.
C29_HdmaCancelAsCoded ==
    /\ C29_CancelStops /\ C29_RestartHblank
    /\ (HdmaWrote /\ HdmaCancelled(last.pre.cgb) /\ last.data < 128)
          => Mmu = last.pre


\* The Mmu of a finished transfer: tick_hdma stored 0xFF at the register's
\* cell and cleared both flags.
HdmaFinished(m) ==
    /\ m.cgb.mode = "Cgb"
    /\ m.memory[HDMA_LENGTH_MODE_START_REGISTER] = 255
    /\ ~m.cgb.hdma_started /\ ~m.cgb.hdma_is_hblank_mode

\* C30: on CGB, once a general-purpose transfer has run or the last block
\* of an HBlank transfer has been moved, a read of 0xFF55 returns 0xFF.
C30_FinishedTransferReadsFF ==
    (last.op = "read" /\ last.addr = HDMA_LENGTH_MODE_START_REGISTER
        /\ HdmaFinished(last.pre))
        => last.value = 255

\* C30, the part the code keeps: each tick_hdma in HBlank moves one block of
\* 16 bytes of an HBlank transfer, which ends when none are left, and the
\* register then reads 0xFF; after a general-purpose transfer of (n+1)*16
\* bytes the length stays and the register reads n.
C30_FinishedTransferAsCoded ==
    /\ (last.op = "read" /\ last.addr = HDMA_LENGTH_MODE_START_REGISTER
          /\ HdmaFinished(last.pre))
          => last.value = (IF last.pre.cgb.hdma_transfer_length = 0 THEN 255
                           ELSE last.pre.cgb.hdma_transfer_length \div 16 - 1)
    /\ (last.op = "tick_hdma" /\ last.result = "Ok" /\ last.pre.cgb.hdma_started
          /\ last.pre.cgb.hdma_is_hblank_mode
          /\ last.pre.cgb.last_ppu_state = "HBlank")
          => /\ cgb.hdma_transfer_length = last.pre.cgb.hdma_transfer_length - 16
             /\ HdmaCopied(last.pre.cgb.hdma_src, last.pre.cgb.hdma_dst, 16)
             /\ HdmaFinished(Mmu) <=> cgb.hdma_transfer_length = 0
    /\ (HdmaWrote /\ ~HdmaCancelled(last.pre.cgb) /\ last.data < 128
          /\ ~last.pre.cgb.hdma_is_hblank_mode)
          => /\ HdmaFinished(Mmu)
             /\ cgb.hdma_transfer_length = (last.data + 1) * 16
             /\ HdmaCopied(last.pre.cgb.hdma_src, last.pre.cgb.hdma_dst,
                           (last.data + 1) * 16)


(***************************************************************************)
(* The CGB palette memory behind the Mmu: reads and writes of the four     *)
(* palette registers in CGB mode, from the state Cram::new leaves.         *)
(***************************************************************************)
MaxCramSteps == 4

CramWrites ==
    {<<BACKGROUND_PALETTE_INDEX_REGISTER, 0>>, <<BACKGROUND_PALETTE_INDEX_REGISTER, 191>>,
     <<BACKGROUND_PALETTE_INDEX_REGISTER, 126>>, <<BACKGROUND_PALETTE_INDEX_REGISTER, 63>>,
     <<OBJECT_PALETTE_INDEX_REGISTER, 0>>, <<OBJECT_PALETTE_INDEX_REGISTER, 191>>,
     <<OBJECT_PALETTE_INDEX_REGISTER, 126>>, <<OBJECT_PALETTE_INDEX_REGISTER, 63>>,
     <<BACKGROUND_PALETTE_DATA_REGISTER, 90>>, <<BACKGROUND_PALETTE_DATA_REGISTER, 165>>,
     <<OBJECT_PALETTE_DATA_REGISTER, 90>>, <<OBJECT_PALETTE_DATA_REGISTER, 165>>}

InitCram ==
    /\ registers = [a |-> 0, f |-> 0, sp |-> InitSp, pc |-> InitPc]
    /\ ime = [enabled |-> FALSE, enable_pending |-> FALSE]
    /\ halted = FALSE
    /\ cycles = 0
    /\ div_cycles = 0
    /\ memory = CgbMemory
    /\ timer = NoTimer
    /\ cartridge = NewCartridge("ROM", 2)
    /\ steps = 0
    /\ reported = 0
    /\ ppu = NoPpu
    /\ gameboy = NoGameBoy
    /\ joypad = NoJoypad
    /\ sm83 = NewSm83
    /\ cgb = NewCgb("Cgb")
    /\ last = [op |-> "init", addr |-> 0, data |-> 0, result |-> "Ok",
               value |-> 0, pre |-> Mmu]
    /\ irq_revision = "enable_and_flags"

NextCram ==
    /\ steps < MaxCramSteps
    /\ \/ \E w \in CramWrites : CgbWrite(w[1], w[2])
       \/ \E addr \in PaletteRegisters : CgbRead(addr)

SpecCram == InitCram /\ [][NextCram]_vars

\* A data-port write or read of one palette memory: port is the data
\* register, palette and address the fields of the Cram it works on.
CramDataPort(port, palette, address) ==
    /\ (last.op = "write" /\ last.addr = port)
          => /\ cgb.cram[palette]
                  = [last.pre.cgb.cram[palette]
                       EXCEPT ![last.pre.cgb.cram[address]] = last.data]
             /\ cgb.cram[address]
                  = (IF last.pre.cgb.cram.auto_increment
                     THEN (last.pre.cgb.cram[address] + 1) % 64
                     ELSE last.pre.cgb.cram[address])
    /\ (last.op = "read" /\ last.addr = port)
          => /\ last.value = last.pre.cgb.cram[palette][last.pre.cgb.cram[address]]
             /\ cgb = last.pre.cgb

\* C31: for each palette memory a data-port write stores the byte at the
\* current address and advances the address by one modulo 64 if
\* auto-increment is set; a data-port read returns palette[address] and
\* leaves the address alone; the address is always in 0..63.
C31_PaletteDataPort ==
    /\ CramDataPort(BACKGROUND_PALETTE_DATA_REGISTER, "background_palette", "bg_address")
    /\ CramDataPort(OBJECT_PALETTE_DATA_REGISTER, "object_palette", "obj_address")
    /\ cgb.cram.bg_address \in 0 .. 63
    /\ cgb.cram.obj_address \in 0 .. 63

\* A data-port write with auto-increment at address 63 wrapped to 0.
C31_Witness ==
    /\ last.op = "write" /\ last.addr = BACKGROUND_PALETTE_DATA_REGISTER
    /\ last.pre.cgb.cram.auto_increment /\ last.pre.cgb.cram.bg_address = 63
    /\ cgb.cram.bg_address = 0
    /\ cgb.cram.background_palette[63] = last.data


\* A write to one palette's registers leaves the other palette alone: what
\* its index register reads (address and auto-increment bit) and its bytes.
CramUntouched(written, index, palette) ==
    (last.op = "write" /\ last.addr \in written)
        => /\ Cram_read(cgb.cram, index) = Cram_read(last.pre.cgb.cram, index)
           /\ cgb.cram[palette] = last.pre.cgb.cram[palette]

\* C40: a write to the object palette's index register or data port changes
\* neither the background palette's address, nor its auto-increment
\* setting, nor its bytes, and the same holds the other way round.
C40_PalettesIndependent ==
    /\ CramUntouched({OBJECT_PALETTE_INDEX_REGISTER, OBJECT_PALETTE_DATA_REGISTER},
                     BACKGROUND_PALETTE_INDEX_REGISTER, "background_palette")
    /\ CramUntouched({BACKGROUND_PALETTE_INDEX_REGISTER, BACKGROUND_PALETTE_DATA_REGISTER},
                     OBJECT_PALETTE_INDEX_REGISTER, "object_palette")

\* C40, the part the code keeps: the other palette's address and bytes stay;
\* the auto-increment flag is one field of the Cram, which a write to either
\* index register sets for both palettes.
C40_PalettesShareAutoIncrement ==
    /\ (last.op = "write"
          /\ last.addr \in {OBJECT_PALETTE_INDEX_REGISTER, OBJECT_PALETTE_DATA_REGISTER})
          => /\ cgb.cram.bg_address = last.pre.cgb.cram.bg_address
             /\ cgb.cram.background_palette = last.pre.cgb.cram.background_palette
    /\ (last.op = "write"
          /\ last.addr \in {BACKGROUND_PALETTE_INDEX_REGISTER, BACKGROUND_PALETTE_DATA_REGISTER})
          => /\ cgb.cram.obj_address = last.pre.cgb.cram.obj_address
             /\ cgb.cram.object_palette = last.pre.cgb.cram.object_palette
    /\ (last.op = "write"
          /\ last.addr \in {BACKGROUND_PALETTE_INDEX_REGISTER, OBJECT_PALETTE_INDEX_REGISTER})
          => /\ Cram_read(cgb.cram, BACKGROUND_PALETTE_INDEX_REGISTER) \div 128
                  = last.data \div 128
             /\ Cram_read(cgb.cram, OBJECT_PALETTE_INDEX_REGISTER) \div 128
                  = last.data \div 128


(***************************************************************************)
(* The CGB colour conversion: Palette::from_background and                 *)
(* Palette::from_object on a palette memory in which the program has       *)
(* stored one colour entry.                                                *)
(***************************************************************************)
MaxColorSteps == 2

\* u16::reverse_bits, on the low n bits of w.
RECURSIVE ReverseBits(_, _)
ReverseBits(w, n) ==
    IF n = 0 THEN 0 ELSE ((w % 2) * (2 ^ (n - 1))) + ReverseBits(w \div 2, n - 1)

\* Cram::fetch_bg and Cram::fetch_obj on the palette memory given; the index
\* sums are computed in u8.
Cram_fetch(palette, slot, index) ==
    palette[(slot * 8 + index + 1) % 256] * 256 + palette[(slot * 8 + index) % 256]

\* (x << 3) | (x >> 2) in u8; the two halves share no bit for x < 32.
Expand5(x) == ((x * 8) % 256) + (x \div 4)

\* The CGB arm of Palette::from_background and of Palette::from_object:
\* Palette::Color(value, r, g, b) for the word fetched for value.
Palette_color(value, word) ==
    <<value,
      Expand5(ReverseBits(word, 16) \div 2048),
      Expand5((ReverseBits(word, 16) \div 64) % 32),
      Expand5((ReverseBits(word, 16) \div 2) % 32)>>

ColorLows == {0, 1, 31, 224, 255, 66}

ColorHighs == {0, 3, 124, 127, 66, 255}

ColorSlots == {0, 5, 7}

ColorValues == 0 .. 3

\* A palette memory holding the entry hi:lo for colour value of slot.
ColorPalette(slot, value, lo, hi) ==
    [k \in 0 .. 63 |->
        IF k = slot * 8 + value * 2 THEN lo
        ELSE IF k = slot * 8 + value * 2 + 1 THEN hi ELSE 0]

InitColor ==
    /\ registers = [a |-> 0, f |-> 0, sp |-> InitSp, pc |-> InitPc]
    /\ ime = [enabled |-> FALSE, enable_pending |-> FALSE]
    /\ halted = FALSE
    /\ cycles = 0
    /\ div_cycles = 0
    /\ memory = CgbMemory
    /\ timer = NoTimer
    /\ cartridge = NewCartridge("ROM", 2)
    /\ steps = 0
    /\ reported = 0
    /\ ppu = NoPpu
    /\ gameboy = NoGameBoy
    /\ joypad = NoJoypad
    /\ sm83 = NewSm83
    /\ \E slot \in ColorSlots, value \in ColorValues, lo \in ColorLows, hi \in ColorHighs :
         cgb = [NewCgb("Cgb") EXCEPT
                  !.cram.background_palette = ColorPalette(slot, value, lo, hi),
                  !.cram.object_palette = ColorPalette(slot, value, hi, lo)]
    /\ last = [op |-> "init", slot |-> 0, value |-> 0, word |-> 0, color |-> <<>>]
    /\ irq_revision = "enable_and_flags"

\* Palette::from_background in CGB mode for a tile of the given palette slot.
FromBackground(slot, value) ==
    /\ last' = [op |-> "from_background", slot |-> slot, value |-> value,
                word |-> Cram_fetch(cgb.cram.background_palette, slot, value * 2),
                color |-> Palette_color(value,
                            Cram_fetch(cgb.cram.background_palette, slot, value * 2))]
    /\ steps' = steps + 1
    /\ UNCHANGED <<registers, ime, halted, cycles, div_cycles, memory, timer,
                   irq_revision, cartridge, reported, ppu, gameboy, joypad, cgb, sm83>>

\* Palette::from_object in CGB mode for an opaque pixel of a sprite of the
\* given palette slot.
FromObject(slot, value) ==
    /\ last' = [op |-> "from_object", slot |-> slot, value |-> value,
                word |-> Cram_fetch(cgb.cram.object_palette, slot, value * 2),
                color |-> Palette_color(value,
                            Cram_fetch(cgb.cram.object_palette, slot, value * 2))]
    /\ steps' = steps + 1
    /\ UNCHANGED <<registers, ime, halted, cycles, div_cycles, memory, timer,
                   irq_revision, cartridge, reported, ppu, gameboy, joypad, cgb, sm83>>

NextColor ==
    /\ steps < MaxColorSteps
    /\ \/ \E slot \in ColorSlots, value \in ColorValues : FromBackground(slot, value)
       \/ \E slot \in ColorSlots, value \in ColorValues : FromObject(slot, value)

SpecColor == InitColor /\ [][NextColor]_vars

\* The word a conversion works on is the little-endian pair of bytes stored
\* for the colour in the palette slot.
ColorWordFetched ==
    /\ last.op = "from_background"
          => last.word = cgb.cram.background_palette[last.slot * 8 + last.value * 2 + 1] * 256
                           + cgb.cram.background_palette[last.slot * 8 + last.value * 2]
    /\ last.op = "from_object"
          => last.word = cgb.cram.object_palette[last.slot * 8 + last.value * 2 + 1] * 256
                           + cgb.cram.object_palette[last.slot * 8 + last.value * 2]

\* C38: the entry w of a palette slot and colour index is converted to
\* 8-bit channels as (x << 3) | (x >> 2), x being the five bits of the
\* channel as stored: red bits 0-4, green bits 5-9, blue bits 10-14.
C38_ColorChannels ==
    /\ ColorWordFetched
    /\ last.op # "init"
          => last.color = <<last.value,
                            Expand5(last.word % 32),
                            Expand5((last.word \div 32) % 32),
                            Expand5((last.word \div 1024) % 32)>>

\* C38, the part the code keeps: the same with the five bits of each
\* channel in reversed order, the word having gone through reverse_bits.
C38_ColorChannelsReversed ==
    /\ ColorWordFetched
    /\ last.op # "init"
          => last.color = <<last.value,
                            Expand5(ReverseBits(last.word % 32, 5)),
                            Expand5(ReverseBits((last.word \div 32) % 32, 5)),
                            Expand5(ReverseBits((last.word \div 1024) % 32, 5))>>


(***************************************************************************)
(* The CPU of Spec started with any bytes in IE and IF, the three unused   *)
(* high bits included.                                                     *)
(***************************************************************************)
VectorEnables == {4, 31, 224, 228}

VectorFlags == {0, 5, 224, 228}

InitVector ==
    /\ \E ie \in VectorEnables, if \in VectorFlags : CpuStarted(0, ie, if)
    /\ irq_revision \in IrqRevisions

SpecVector == InitVector /\ [][Next]_vars

Vectors == {64, 72, 80, 88, 96}

\* C39: a step that finds IE & IF non-zero with IME enabled dispatches to
\* one of the five vectors, whatever bytes are stored at 0xFFFF and 0xFF0F;
\* in every state the selection a step would make on a pending request
\* yields a vector and not the unreachable branch.
C39_VectorAlwaysFound ==
    /\ last.dispatched => last.fetch_pc \in Vectors
    /\ InterruptPending(Machine)
          => SelectVector(irq_revision, ReadInterruptEnable(Machine),
                          ReadInterruptFlags(Machine)) # 0

\* A dispatch with the high bits set in both IE and IF.
C39_Witness ==
    /\ last.dispatched /\ last.fetch_pc \in Vectors
    /\ last.pre_ie >= 224 /\ last.pre_if >= 224


(***************************************************************************)
(* Sm83::decode with its opcode caches (src/lr35902/sm83.rs) under         *)
(* Cpu::tick.  The bytes at PC, PC+1 and PC+2 are inputs of each step.  An *)
(* Instruction is a record of opcode, lhs, rhs, length and cycles; an      *)
(* operand is a tuple headed by its variant, <<"None">> for no operand; -1 *)
(* in cycles stands for None.  The decoders modelled are those of NOP,     *)
(* LD A,imm8, JP imm16, RET, the eight RST and the prefixed BIT n,A.       *)
(***************************************************************************)
MaxDecodeSteps == 3

RstOpcodes == {199, 207, 215, 223, 231, 239, 247, 255}

PrimaryOpcodes == {0, 62, 195, 201} \cup RstOpcodes

BitOpcodes == {71, 127}

NextBytes == {8, 144}

HighBytes == {255}

NoOperand == <<"None">>

\* The decoders of Sm83::propagate_decoders for the opcode byte b0 with
\* b1 and b2 the bytes after it.
DecodePrimary(b0, b1, b2) ==
    CASE b0 = 0 ->
           [opcode |-> "Nop", lhs |-> NoOperand, rhs |-> NoOperand,
            length |-> 1, cycles |-> <<4, -1>>]
      [] b0 = 62 ->
           [opcode |-> "Ld", lhs |-> <<"Reg8", "A", "Direct">>,
            rhs |-> <<"Imm8", b1, "Direct">>, length |-> 2, cycles |-> <<8, -1>>]
      [] b0 = 195 ->
           [opcode |-> "Jp", lhs |-> <<"Conditional", "None">>,
            rhs |-> <<"Imm16", Word(b1, b2), "Direct">>,
            length |-> 3, cycles |-> <<16, -1>>]
      [] b0 = 201 ->
           [opcode |-> "Ret", lhs |-> <<"Conditional", "None">>, rhs |-> NoOperand,
            length |-> 1, cycles |-> <<16, -1>>]
      [] b0 \in RstOpcodes ->
           [opcode |-> "Rst", lhs |-> <<"Imm8", 8 * ((b0 \div 8) % 8), "Direct">>,
            rhs |-> NoOperand, length |-> 1, cycles |-> <<16, -1>>]

\* The decoder of Sm83::propagate_decoders_prefixed for BIT n, A; b1 is the
\* byte after the 0xCB prefix.
DecodePrefixed(b1) ==
    [opcode |-> "Bit", lhs |-> <<"Bit", (b1 \div 8) % 8>>,
     rhs |-> <<"Reg8", "A", "Direct">>, length |-> 2, cycles |-> <<8, -1>>]

DecodeFresh(b0, b1, b2) ==
    IF b0 = 203 THEN DecodePrefixed(b1) ELSE DecodePrimary(b0, b1, b2)

\* What Sm83::decode does to an operand of a cached instruction: the
\* immediate variants are filled from PC+1, the others are kept.
PatchOperand(operand, b1, b2) ==
    CASE operand[1] = "Imm8" -> <<"Imm8", b1, operand[3]>>
      [] operand[1] = "Imm16" -> <<"Imm16", Word(b1, b2), operand[3]>>
      [] operand[1] = "Offset" -> <<"Offset", SignedByte(b1)>>
      [] operand[1] = "DisplacedReg16" ->
           <<"DisplacedReg16", operand[2], SignedByte(b1), operand[4]>>
      [] OTHER -> operand

\* The cache Sm83::decode looks in, and its key.
CacheOf(s, b0) == IF b0 = 203 THEN s.cached_lut_prefixed ELSE s.cached_lut

CacheKey(b0, b1) == IF b0 = 203 THEN b1 ELSE b0

\* Sm83::decode: the instruction returned and the Sm83 afterwards.
Sm83_decode(s, b0, b1, b2) ==
    IF CacheKey(b0, b1) \in DOMAIN CacheOf(s, b0)
    THEN [instruction |->
            [CacheOf(s, b0)[CacheKey(b0, b1)] EXCEPT
               !.lhs = PatchOperand(@, b1, b2), !.rhs = PatchOperand(@, b1, b2)],
          sm83 |-> s]
    ELSE [instruction |-> DecodeFresh(b0, b1, b2),
          sm83 |-> IF b0 = 203
                   THEN [s EXCEPT !.cached_lut_prefixed =
                                     (b1 :> DecodeFresh(b0, b1, b2)) @@ @]
                   ELSE [s EXCEPT !.cached_lut =
                                     (b0 :> DecodeFresh(b0, b1, b2)) @@ @]]

\* Handlers::restart; PC is already past the instruction.
Handlers_restart(m, addr) ==
    [push_stack(m, m.registers.pc) EXCEPT !.registers.pc = addr]

\* Handlers::test_bit on register A
Handlers_test_bit(m, bit) ==
    update_flag(update_flag(update_flag(m, FLAG_ZERO,
                                        (m.registers.a \div (2 ^ bit)) % 2 = 0),
                            FLAG_SUBTRACT, FALSE), FLAG_HALF_CARRY, TRUE)

\* The dispatch of Cpu::tick on the decoded instruction.
ExecuteDecoded(m, instruction) ==
    CASE instruction.opcode = "Nop" -> m
      [] instruction.opcode = "Ld" -> Handlers_ld_a(m, instruction.rhs[2])
      [] instruction.opcode = "Jp" -> Handlers_jump(m, "JP", instruction.rhs[2])
      [] instruction.opcode = "Ret" -> Handlers_ret(m, "RET")
      [] instruction.opcode = "Rst" -> Handlers_restart(m, instruction.lhs[2])
      [] instruction.opcode = "Bit" -> Handlers_test_bit(m, instruction.lhs[2])

\* Cpu::tick after the interrupt check, on the instruction decode returned.
TickDecoded(h, instruction) ==
    Account(ExecuteDecoded([h EXCEPT !.registers.pc =
                                (h.registers.pc + instruction.length) % 65536],
                           instruction),
            instruction.cycles[1])

InitDecode ==
    /\ \E a \in {1, 128} : registers = [a |-> a, f |-> 0, sp |-> InitSp, pc |-> InitPc]
    /\ ime = [enabled |-> FALSE, enable_pending |-> FALSE]
    /\ halted = FALSE
    /\ cycles = 0 /\ div_cycles = 0
    /\ memory = InitMemory(0, 0)
    /\ timer = NoTimer /\ cartridge = NoCartridge
    /\ steps = 0 /\ reported = 0
    /\ ppu = NoPpu /\ gameboy = NoGameBoy /\ joypad = NoJoypad /\ cgb = NoCgb
    /\ sm83 = NewSm83
    /\ last = [op |-> "init", bytes |-> <<0, 0, 0>>, cached |-> FALSE,
               instruction |-> DecodePrimary(0, 0, 0), pre |-> Machine]
    /\ irq_revision = "enable_and_flags"

\* One call of Cpu::tick with the bytes b0, b1, b2 at PC.
DecodeTick(b0, b1, b2) ==
    /\ registers.sp - 2 >= StackLo
    /\ b0 = 201 => registers.sp + 1 <= StackHi
    /\ \E h \in {handle_interrupts(Machine, irq_revision)},
          d \in {Sm83_decode(sm83, b0, b1, b2)} :
         /\ \E t \in {TickDecoded(h, d.instruction)} :
              /\ registers' = t.registers
              /\ ime' = t.ime
              /\ halted' = t.halted
              /\ cycles' = t.cycles
              /\ div_cycles' = t.div_cycles
              /\ memory' = t.memory
         /\ sm83' = d.sm83
         /\ reported' = reported + d.instruction.cycles[1]
         /\ last' = [op |-> "tick", bytes |-> <<b0, b1, b2>>,
                     cached |-> CacheKey(b0, b1) \in DOMAIN CacheOf(sm83, b0),
                     instruction |-> d.instruction, pre |-> Machine]
    /\ steps' = steps + 1
    /\ UNCHANGED <<timer, irq_revision, cartridge, ppu, gameboy, joypad, cgb>>

NextDecode ==
    /\ steps < MaxDecodeSteps
    /\ \/ \E b0 \in PrimaryOpcodes, b1 \in NextBytes, b2 \in HighBytes :
            DecodeTick(b0, b1, b2)
       \/ \E b1 \in BitOpcodes, b2 \in NextBytes : DecodeTick(203, b1, b2)

SpecDecode == InitDecode /\ [][NextDecode]_vars

\* C32: every execution of an RST opcode pushes the address of the
\* following instruction and sets PC to 8 times bits 5-3 of the opcode,
\* whatever byte follows the opcode and whatever was decoded before.
C32_RstTarget ==
    (last.op = "tick" /\ last.bytes[1] \in RstOpcodes)
        => /\ registers.pc = 8 * ((last.bytes[1] \div 8) % 8)
           /\ registers.sp = last.pre.registers.sp - 2
           /\ MmuRead16(memory, registers.sp) = (last.pre.registers.pc + 1) % 65536

\* C32, the part the code keeps: the push, and the target on the first
\* execution of each RST opcode; a later execution of the same opcode takes
\* the instruction from the cache, where the Imm8 operand that carries the
\* target is overwritten with the byte after the opcode.
C32_RstTargetFromCache ==
    (last.op = "tick" /\ last.bytes[1] \in RstOpcodes)
        => /\ registers.pc = (IF last.cached THEN last.bytes[2]
                              ELSE 8 * ((last.bytes[1] \div 8) % 8))
           /\ registers.sp = last.pre.registers.sp - 2
           /\ MmuRead16(memory, registers.sp) = (last.pre.registers.pc + 1) % 65536

\* C33: an instruction decoded through the opcode cache equals the
\* instruction a fresh decoder produces from the same bytes: same opcode,
\* operands, length and cycles.
C33_CachedDecodeEqualsFresh ==
    (last.op = "tick" /\ last.cached)
        => last.instruction = DecodeFresh(last.bytes[1], last.bytes[2], last.bytes[3])

\* C33, the part the code keeps: the cached decode equals the fresh one for
\* every opcode but RST, and for RST in everything but the target operand,
\* which holds the byte after the opcode.
C33_CachedDecodeButRst ==
    (last.op = "tick" /\ last.cached)
        => last.instruction
             = (IF last.bytes[1] \in RstOpcodes
                THEN [DecodeFresh(last.bytes[1], last.bytes[2], last.bytes[3])
                        EXCEPT !.lhs = <<"Imm8", last.bytes[2], "Direct">>]
                ELSE DecodeFresh(last.bytes[1], last.bytes[2], last.bytes[3]))



(***************************************************************************)
(* Specification SpecLine: the lines of a frame (src/video/ppu.rs,         *)
(* src/gameboy.rs).  GameBoy::run_frame calls Ppu::tick once per 456       *)
(* master-clock units; between two calls the program writes LCDC and reads *)
(* LY through the Mmu.  The frame has reached line LY when the run starts. *)
(***************************************************************************)
MaxLineSteps == 4

LineStarts == {0, 142, 152}

LineStats == {0, 16, 56, 64, 120}

LineLycs == {0, 2, 144, 153}

LineFlags == {0, 2, 229}

LineLcdcWrites == {17, 145}

LineMemory(ly, stat, lyc, if) ==
    [a \in MemAddrs \cup VideoAddrs |->
        CASE a = LCD_CONTROL_REGISTER -> 145
          [] a = LCD_STATUS_REGISTER -> stat
          [] a = SCANLINE_Y_REGISTER -> ly
          [] a = SCANLINE_Y_COMPARE_REGISTER -> lyc
          [] a = INTERRUPT_FLAGS_REGISTER -> if
          [] OTHER -> 0]

InitLine ==
    /\ \E ly \in LineStarts, stat \in LineStats, lyc \in LineLycs, if \in LineFlags :
          CpuStartedWith(0, LineMemory(ly, stat, lyc, if), NoCartridge)
    /\ irq_revision = "enable_and_flags"

\* run_frame reaches a multiple of 456 and calls Ppu::tick.
LineTick ==
    /\ \E v \in {Ppu_tick(ppu, memory)} :
          /\ memory' = v.memory
          /\ ppu' = v.ppu
    /\ last' = [op |-> "tick", pre |-> memory, value |-> 0]
    /\ steps' = steps + 1
    /\ UNCHANGED <<registers, ime, halted, cycles, div_cycles, timer,
                   irq_revision, cartridge, reported, gameboy, joypad, cgb, sm83>>

\* The program writes LCDC (Mmu::write).
LineWriteLcdc(data) ==
    /\ memory' = Mmu_write(Mmu, LCD_CONTROL_REGISTER, data).mmu.memory
    /\ last' = [op |-> "write_lcdc", pre |-> memory, value |-> data]
    /\ steps' = steps + 1
    /\ UNCHANGED <<registers, ime, halted, cycles, div_cycles, timer,
                   irq_revision, cartridge, reported, ppu, gameboy, joypad, cgb, sm83>>

\* The program reads LY (Mmu::read).
LineReadLy ==
    /\ last' = [op |-> "read_ly", pre |-> memory,
                value |-> Mmu_read(Mmu, SCANLINE_Y_REGISTER).value]
    /\ steps' = steps + 1
    /\ UNCHANGED <<registers, ime, halted, cycles, div_cycles, memory, timer,
                   irq_revision, cartridge, reported, ppu, gameboy, joypad, cgb, sm83>>

NextLine ==
    /\ steps < MaxLineSteps
    /\ \/ LineTick
       \/ \E data \in LineLcdcWrites : LineWriteLcdc(data)
       \/ LineReadLy

SpecLine == InitLine /\ [][NextLine]_vars

\* The LYC comparison of the line that has just begun.
LycMatches(mem) ==
    /\ BitAnd(mem[LCD_STATUS_REGISTER], LYC_EQ_LY_ENABLE) # 0
    /\ \/ mem[SCANLINE_Y_REGISTER] = mem[SCANLINE_Y_COMPARE_REGISTER]
       \/ mem[SCANLINE_Y_REGISTER] = 153 /\ mem[SCANLINE_Y_COMPARE_REGISTER] = 0

\* Ppu::tick has just incremented the line.
LineIncremented == last.op = "tick" /\ LcdEnabled(last.pre)

\* C34: after each line increment the STAT bit of IF is set if the LYC
\* interrupt enable is set and LY = LYC or LY = 153 with LYC = 0; otherwise
\* the STAT bit keeps its value, and the VBlank, Timer, Serial and Joypad
\* bits of the five-bit IF keep theirs in both cases.
C34_LycCompareRaisesStat ==
    LineIncremented =>
        /\ LycMatches(memory) => Bit(memory[INTERRUPT_FLAGS_REGISTER], 1) = 1
        /\ ~LycMatches(memory) =>
               Bit(memory[INTERRUPT_FLAGS_REGISTER], 1)
                   = Bit(last.pre[INTERRUPT_FLAGS_REGISTER], 1)
        /\ BitAnd(memory[INTERRUPT_FLAGS_REGISTER], 29)
               = BitAnd(last.pre[INTERRUPT_FLAGS_REGISTER], 29)

\* The line has moved to 153 with LYC = 0, the enable set, the STAT bit
\* clear before and other requests pending.
C34_Witness ==
    /\ LineIncremented
    /\ memory[SCANLINE_Y_REGISTER] = 153
    /\ memory[SCANLINE_Y_COMPARE_REGISTER] = 0
    /\ BitAnd(memory[LCD_STATUS_REGISTER], LYC_EQ_LY_ENABLE) # 0
    /\ last.pre[INTERRUPT_FLAGS_REGISTER] = 229
    /\ memory[INTERRUPT_FLAGS_REGISTER] = 7

\* Ppu::tick was called with the LCD switched off.
TickedWhileOff == last.op = "tick" /\ ~LcdEnabled(last.pre)

\* C35: while LCDC bit 7 is 0 a read of LY returns 0, whatever line the frame
\* had reached when the program switched the LCD off, and a PPU tick sets
\* neither the VBlank nor the STAT bit of IF.
C35_LcdOffFreezesPpu ==
    /\ (last.op = "read_ly" /\ ~LcdEnabled(memory)) => last.value = 0
    /\ TickedWhileOff =>
           BitAnd(memory[INTERRUPT_FLAGS_REGISTER], 3)
               = BitAnd(last.pre[INTERRUPT_FLAGS_REGISTER], 3)

\* What the code does with the LCD off: a tick changes nothing, and LY reads
\* as the line the frame had reached.
C35_LcdOffKeepsLine ==
    /\ (last.op = "read_ly" /\ ~LcdEnabled(memory)) =>
           last.value = memory[SCANLINE_Y_REGISTER]
    /\ TickedWhileOff => memory = last.pre
    /\ (last.op = "write_lcdc") =>
           memory[SCANLINE_Y_REGISTER] = last.pre[SCANLINE_Y_REGISTER]

\* The frame has just passed from line 143 into line 144.
EnteredVBlank ==
    LineIncremented /\ last.pre[SCANLINE_Y_REGISTER] = 143

\* C36: the VBlank bit of IF is set when the frame passes from the HBlank of
\* line 143 into VBlank and at no other line change, and at that change the
\* STAT bit is set when the STAT mode-1 enable (bit 4) is set.
C36_VBlankRaisedOnEnteringVBlank ==
    /\ EnteredVBlank => Bit(memory[INTERRUPT_FLAGS_REGISTER], 0) = 1
    /\ (EnteredVBlank /\ Bit(memory[LCD_STATUS_REGISTER], 4) = 1)
           => Bit(memory[INTERRUPT_FLAGS_REGISTER], 1) = 1
    /\ (LineIncremented /\ ~EnteredVBlank) =>
           Bit(memory[INTERRUPT_FLAGS_REGISTER], 0)
               = Bit(last.pre[INTERRUPT_FLAGS_REGISTER], 0)

\* What the frame loop does: no line change touches the VBlank bit, and the
\* STAT bit changes through the LYC comparison only.
C36_LineChangeNeverRaisesVBlank ==
    LineIncremented =>
        /\ Bit(memory[INTERRUPT_FLAGS_REGISTER], 0)
               = Bit(last.pre[INTERRUPT_FLAGS_REGISTER], 0)
        /\ ~LycMatches(memory) =>
               Bit(memory[INTERRUPT_FLAGS_REGISTER], 1)
                   = Bit(last.pre[INTERRUPT_FLAGS_REGISTER], 1)


(***************************************************************************)
(* Specification SpecScanline: Ppu::render_scanline over a whole line      *)
(* (src/video/ppu.rs).  The first sprites of the OAM stand side by side on *)
(* the scanline in LY, each an opaque 8-pixel tile; the background has one *)
(* colour index along the line and the window is transparent.  DMG mode.   *)
(***************************************************************************)
MaxLineSprites == 12

LineSpriteXs == {8, 9}

LineSpriteAttrs == {0, 128}

LineSpriteLcdControls == {145, 147}

\* Byte k of OAM entry i.
LineSpriteByte(i, k, x, attr, ly) ==
    CASE k = 0 -> ly + 16
      [] k = 1 -> x + 8 * i
      [] k = 2 -> 0
      [] k = 3 -> attr

ScanlineMemory(n, x, attr, lcdc, ly) ==
    [a \in SpriteAddrs |->
        CASE a \in OAM_ADDRESS .. OAM_ADDRESS + 4 * n - 1 ->
                 LineSpriteByte((a - OAM_ADDRESS) \div 4, (a - OAM_ADDRESS) % 4,
                                x, attr, ly)
          [] a \in TILESET_0_ADDRESS .. TILESET_0_ADDRESS + 31 -> 255
          [] a = LCD_CONTROL_REGISTER -> lcdc
          [] a = SCANLINE_Y_REGISTER -> ly
          [] OTHER -> 0]

InitScanline ==
    \E n \in 0 .. MaxLineSprites, x \in LineSpriteXs, attr \in LineSpriteAttrs,
       lcdc \in LineSpriteLcdControls, ly \in {50} :
        /\ CpuStartedWith(0, ScanlineMemory(n, x, attr, lcdc, ly), NoCartridge)
        /\ irq_revision = "enable_and_flags"

\* The OAM entries with an entry in visited_oams; visited holds a pair
\* <<OAM entry, x>> for every pixel pushed.
VisitedSprites(visited) == {p[1] : p \in visited}

\* The loop body of render_scanline at pixel x for the sprite i that
\* SpriteDrawn found there (-1 for none): visited_oams afterwards.
Visit(visited, x, i) ==
    IF Cardinality(VisitedSprites(visited)) <= 10 /\ i # -1
    THEN visited \cup {<<i, x>>}
    ELSE visited

\* visited_oams after the pixels lo .. hi of the loop of render_scanline, in
\* the order of the loop; the last loop of render_scanline copies every pair
\* of it into the row of the framebuffer.
RECURSIVE VisitedOams(_, _, _, _, _)
VisitedOams(mem, bg, lo, hi, visited) ==
    IF lo = hi
    THEN Visit(visited, lo, SpriteDrawn(mem, lo, bg))
    ELSE CHOOSE after \in
             {VisitedOams(mem, bg, (lo + hi) \div 2 + 1, hi, before) :
                  before \in {VisitedOams(mem, bg, lo, (lo + hi) \div 2, visited)}} :
             TRUE

\* Ppu::render_scanline of the line in LY.
RenderScanline(bg) ==
    /\ last.op = "init"
    /\ last' = [op |-> "render_scanline", bg |-> bg,
                visited |-> VisitedOams(memory, bg, 0, SCREEN_WIDTH - 1, {})]
    /\ UNCHANGED <<registers, ime, halted, cycles, div_cycles, memory, timer,
                   irq_revision, cartridge, steps, reported>>
    /\ UNCHANGED deviceVars

NextScanline == \E bg \in {0, 1} : RenderScanline(bg)

SpecScanline == InitScanline /\ [][NextScanline]_vars

\* C37: at most 10 sprites are drawn on a scanline: no pixel of an eleventh
\* sprite reaches the framebuffer row, whatever the OAM holds.
C37_AtMostTenSpritesPerLine ==
    last.op = "render_scanline" =>
        Cardinality(VisitedSprites(last.visited)) <= 10

\* What the code does: an eleventh sprite gets its first pixel drawn, and no
\* twelfth sprite is drawn.
C37_EleventhSpriteShowsOnePixel ==
    last.op = "render_scanline" =>
        /\ Cardinality(VisitedSprites(last.visited)) <= 11
        /\ \A i \in VisitedSprites(last.visited) :
               Cardinality({p \in last.visited : p[1] = i}) = IF i = 10 THEN 1 ELSE 8

====
